---- MODULE Spec2Model ----
(***************************************************************************)
(* Review orchestration of open-coderabbit-server.                         *)
(*                                                                         *)
(* The server is one Node.js process: a handler or the continuation of an *)
(* await runs to its next await without interleaving.  Every action below *)
(* is one such run: a tRPC procedure of the router, or the resumption of  *)
(* ReviewService.run after the AI provider call it awaits has settled.    *)
(* The awaits of processAndSendComments and categorizeAndSendDetails      *)
(* (async functions that contain no await of their own) resume in the     *)
(* same macrotask, so no request handler runs in between; they are part   *)
(* of the action that reaches them.                                        *)
(***************************************************************************)
EXTENDS Integers, Sequences, FiniteSets, TLC

VARIABLES
    sessions,       \* slot -> the ReviewService instance created for a request
    log,            \* reviewId -> its history: events emitted, provider calls made and settled
    listeners,      \* the clientIds of the registered onReviewEvent listeners
    bus,            \* the emits of the last handler run, each with its deliveries
    activeReviews,  \* Monitor.activeReviews (its key set)
    retry,          \* one call of retryWithBackoff: its locals and what it did
    limiter,        \* a RateLimiter, the clock it reads and the checks made of it
    cache,          \* an LRUCache, the clock it reads and the uses made of its keys
    monitor         \* a Monitor used on its own: its review metrics and the reviews it tracks

\* The state of the review orchestration and the state of the utilities,
\* which the orchestration's actions leave alone.
orchestration == <<sessions, log, listeners, bus, activeReviews>>
utilities == <<retry, limiter, cache, monitor>>

vars ==
    <<sessions, log, listeners, bus, activeReviews, retry, limiter, cache,
      monitor>>

(***************************************************************************)
(* Bounds of the model.                                                    *)
(***************************************************************************)
MaxStream == 2      \* items the findings stream yields at most
MaxBatch == 2       \* items performCodeReview returns at most
MaxStops == 1       \* stopReview requests over a behaviour
BusMaxStream == 1   \* the same two, for the sessions of SpecBus
BusMaxBatch == 1
MaxDiffLines == 3       \* lines of a generated diff at most
IndexMaxFindings == 1   \* comments of a session of SpecIndex at most
MaxFindings == 2        \* comments of a session of SpecClassify at most
MaxRetriesOption == 2    \* the maxRetries option of a call of SpecRetry at most
MaxRequestsConfig == 2   \* maxRequests of the limiter of SpecLimiter at most
MaxCalls == 4            \* calls made of the limiter of SpecLimiter at most
MaxResets == 1           \* of which calls of reset at most
MaxNow == 2000           \* the clock of SpecLimiter at most, in milliseconds
MaxSize == 2             \* maxSize of the cache of SpecCache at most
MaxOps == 4              \* operations on the cache of SpecCache at most
MaxCacheNow == 1200      \* the clock of SpecCache at most, in milliseconds
MaxRenderFindings == 2   \* comments of a session of SpecRender at most
MaxStarted == 4          \* calls of startReview on the monitor of SpecMonitor at most

Slots == {1, 2}
ReviewIds == {"r1", "r2"}
ClientIds == {"c1", "c2", "*"}
Nil == "nil"
Router == 0

(***************************************************************************)
(* Review comments.  The provider's output is untrusted data; here the     *)
(* n-th streamed and the n-th batch comment are fixed records that differ  *)
(* in origin, so that the accumulated list shows where each came from.     *)
(* (Of the fields of a ReviewComment, the text fields and the suggestions  *)
(* are left out.)                                                          *)
(***************************************************************************)
StreamComment(n) ==
    [origin |-> "stream", filename |-> "a.ts", startLine |-> n, endLine |-> n,
     type |-> "potential_issue"]
BatchComment(n) ==
    [origin |-> "batch", filename |-> "a.ts", startLine |-> n, endLine |-> n,
     type |-> "potential_issue"]
BatchOutput(n) == [i \in 1 .. n |-> BatchComment(i)]

(***************************************************************************)
(* allComments.sort((a, b) => b.startLine - a.startLine): a stable sort,   *)
(* descending by startLine.                                                *)
(***************************************************************************)
RECURSIVE InsertDesc(_, _)
InsertDesc(c, sorted) ==
    IF sorted = <<>> THEN <<c>>
    ELSE IF Head(sorted).startLine >= c.startLine
         THEN <<Head(sorted)>> \o InsertDesc(c, Tail(sorted))
         ELSE <<c>> \o sorted

RECURSIVE SortComments(_)
SortComments(cs) ==
    IF cs = <<>> THEN <<>>
    ELSE InsertDesc(cs[Len(cs)], SortComments(SubSeq(cs, 1, Len(cs) - 1)))

(***************************************************************************)
(* Text.  A string is the sequence of its characters; a file's diff is one *)
(* string with "\n" between its lines.                                     *)
(***************************************************************************)
NL == "\n"

\* Op applied to the value of x, computed once however often Op reads it.
Once(Op(_), x) == CHOOSE result \in {Op(value) : value \in {x}} : TRUE

\* text.split('\n'): the pieces of the text between its line breaks, one
\* more than it has line breaks.
split(text) ==
    LET breaks == {i \in DOMAIN text : text[i] = NL}
        \* the position of the k-th line break; 0 and Len(text) + 1 bound the text
        Break(k) == IF k = 0 THEN 0
                    ELSE IF k > Cardinality(breaks) THEN Len(text) + 1
                    ELSE CHOOSE b \in breaks : Cardinality({c \in breaks : c < b}) = k - 1
        pieces == [k \in 1 .. Cardinality(breaks) + 1 |->
                      SubSeq(text, Break(k - 1) + 1, Break(k) - 1)]
    IN SubSeq(pieces, 1, Len(pieces))

\* lines.join('\n')
RECURSIVE join(_)
join(lines) ==
    IF lines = <<>> THEN <<>>
    ELSE IF Len(lines) = 1 THEN lines[1]
    ELSE lines[1] \o << NL >> \o join(Tail(lines))

\* line.startsWith(prefix)
startsWith(line, prefix) ==
    Len(line) >= Len(prefix) /\ SubSeq(line, 1, Len(prefix)) = prefix

Digit == {"0", "1", "2", "3", "4", "5", "6", "7", "8", "9"}

DigitValue(d) == CHOOSE v \in 0 .. 9 : <<"0", "1", "2", "3", "4", "5", "6", "7", "8", "9">>[v + 1] = d

\* The length of the run of digits of `line` that starts at position i (\d+
\* matches it whole: what follows it in the pattern is never a digit).
RECURSIVE DigitRun(_, _)
DigitRun(line, i) ==
    IF i <= Len(line) /\ line[i] \in Digit THEN 1 + DigitRun(line, i + 1) ELSE 0

\* The position after an optional (,\d+) at position i.
AfterCount(line, i) ==
    Once(LAMBDA p : IF p <= Len(line) /\ line[p] = "," /\ DigitRun(line, p + 1) >= 1
                    THEN p + 1 + DigitRun(line, p + 1)
                    ELSE p,
         i)

\* /^@@ -\d+(,\d+)? \+(\d+)(,\d+)? @@/.exec(line): the digits of group 2 when
\* the line matches, <<>> when it does not.
HunkHeaderMatch(line) ==
    Once(LAMBDA oldEnd :
            Once(LAMBDA newLen :
                    IF /\ startsWith(line, <<"@", "@", " ", "-">>)
                       /\ DigitRun(line, 5) >= 1
                       /\ startsWith(SubSeq(line, oldEnd, Len(line)), <<" ", "+">>)
                       /\ newLen >= 1
                       /\ startsWith(SubSeq(line, AfterCount(line, oldEnd + 2 + newLen),
                                            Len(line)),
                                     <<" ", "@", "@">>)
                    THEN SubSeq(line, oldEnd + 2, oldEnd + 2 + newLen - 1)
                    ELSE <<>>,
                 DigitRun(line, oldEnd + 2)),
         AfterCount(line, 5 + DigitRun(line, 5)))

\* parseInt(digits, 10)
RECURSIVE parseInt(_)
parseInt(digits) ==
    IF digits = <<>> THEN 0
    ELSE 10 * parseInt(SubSeq(digits, 1, Len(digits) - 1)) + DigitValue(digits[Len(digits)])

(***************************************************************************)
(* categorizeAndSendDetails, first half: the changed lines of every file.  *)
(***************************************************************************)
\* The body of the loop with the cursor advancing on a removed line too.
ScanLineCountRemoved(line, currentNewLine, changedLines) ==
    IF startsWith(line, <<"@", "@">>)
    THEN [currentNewLine |->
              Once(LAMBDA match : IF match # <<>> THEN parseInt(match) ELSE 0,
                   HunkHeaderMatch(line)),
          changedLines |-> changedLines]
    ELSE IF startsWith(line, <<"+">>)
    THEN [currentNewLine |-> currentNewLine + 1,
          changedLines |-> changedLines \cup {currentNewLine}]
    ELSE IF startsWith(line, <<" ">>) \/ startsWith(line, <<"-">>)
    THEN [currentNewLine |-> currentNewLine + 1, changedLines |-> changedLines]
    ELSE [currentNewLine |-> currentNewLine, changedLines |-> changedLines]

\* The body of the loop over the lines of one diff: a hunk header sets the
\* cursor (to 0 when it does not parse), an added line is recorded and
\* advances it, a context line advances it, any other line is passed over.
ScanLine(line, currentNewLine, changedLines) ==
    IF startsWith(line, <<"@", "@">>)
    THEN [currentNewLine |->
              Once(LAMBDA match : IF match # <<>> THEN parseInt(match) ELSE 0,
                   HunkHeaderMatch(line)),
          changedLines |-> changedLines]
    ELSE IF startsWith(line, <<"+">>)
    THEN [currentNewLine |-> currentNewLine + 1,
          changedLines |-> changedLines \cup {currentNewLine}]
    ELSE IF startsWith(line, <<" ">>)
    THEN [currentNewLine |-> currentNewLine + 1, changedLines |-> changedLines]
    ELSE [currentNewLine |-> currentNewLine, changedLines |-> changedLines]

\* The loop over the lines of one diff.
RECURSIVE ScanDiffLines(_, _, _)
ScanDiffLines(diffLines, currentNewLine, changedLines) ==
    IF diffLines = <<>> THEN changedLines
    ELSE Once(LAMBDA next :
                 ScanDiffLines(Tail(diffLines), next.currentNewLine, next.changedLines),
              ScanLine(Head(diffLines), currentNewLine, changedLines))

\* The set of changed lines declared once, outside the loop over the files:
\* each file's set starts from the set of the file before it.
RECURSIVE changedLinesOfShared(_, _)
changedLinesOfShared(files, n) ==
    Once(LAMBDA diffLines :
            ScanDiffLines(diffLines, 0,
                          IF n = 1 THEN {} ELSE changedLinesOfShared(files, n - 1)),
         split(files[n].diff))

\* The body of the loop over the files, for the n-th file: a fresh set and a
\* fresh cursor.
changedLinesOf(files, n) ==
    Once(LAMBDA diffLines : ScanDiffLines(diffLines, 0, {}), split(files[n].diff))

\* A Map or Record keyed by filename is a function on the keys it has.
EmptyMap == [key \in {} |-> {}]

MapSet(map, key, value) ==
    (key :> value) @@ map

RECURSIVE changedLinesMapUpTo(_, _)
changedLinesMapUpTo(files, n) ==
    IF n = 0 THEN EmptyMap
    ELSE MapSet(changedLinesMapUpTo(files, n - 1), files[n].filename, changedLinesOf(files, n))

changedLinesMap(files) == changedLinesMapUpTo(files, Len(files))

(***************************************************************************)
(* categorizeAndSendDetails, second half: the three containers.            *)
(***************************************************************************)
\* inDiff looking one line above the comment's range as well.
inDiffFromLineBefore(comment, map) ==
    /\ comment.filename \in DOMAIN map
    /\ \E i \in comment.startLine - 1 .. comment.endLine : i \in map[comment.filename]

\* inDiff: the file has a set of changed lines and some line of the
\* comment's range is in it.
inDiff(comment, map) ==
    /\ comment.filename \in DOMAIN map
    /\ \E i \in comment.startLine .. comment.endLine : i \in map[comment.filename]

\* record[key].push(comment), creating the list when the key is new.
Push(record, key, comment) ==
    IF key \in DOMAIN record
    THEN [record EXCEPT ![key] = Append(@, comment)]
    ELSE MapSet(record, key, << comment >>)

EmptyContainers ==
    [assertiveFileReviewMap |-> EmptyMap, fileReviewMap |-> EmptyMap,
     outsideDiffRangeComments |-> <<>>]

\* The loop body without its `else`: a nitpick is categorized by its place
\* in the diff as well.
CategorizeCommentFallThrough(acc, comment, isInDiff) ==
    LET a == IF comment.type = "nitpick"
             THEN [acc EXCEPT !.assertiveFileReviewMap = Push(@, comment.filename, comment)]
             ELSE acc
    IN IF isInDiff
       THEN [a EXCEPT !.fileReviewMap = Push(@, comment.filename, comment)]
       ELSE [a EXCEPT !.outsideDiffRangeComments = Append(@, comment)]

\* The loop body that looks at the diff first and at the type second.
CategorizeCommentDiffFirst(acc, comment, isInDiff) ==
    IF ~isInDiff
    THEN [acc EXCEPT !.outsideDiffRangeComments = Append(@, comment)]
    ELSE IF comment.type = "nitpick"
    THEN [acc EXCEPT !.assertiveFileReviewMap = Push(@, comment.filename, comment)]
    ELSE [acc EXCEPT !.fileReviewMap = Push(@, comment.filename, comment)]

\* The loop body that sends potential issues and refactor suggestions in
\* the diff to the assertive map.
CategorizeCommentByType(acc, comment, isInDiff) ==
    IF comment.type = "nitpick"
       \/ (isInDiff /\ comment.type \in {"potential_issue", "refactor_suggestion"})
    THEN [acc EXCEPT !.assertiveFileReviewMap = Push(@, comment.filename, comment)]
    ELSE IF isInDiff
    THEN [acc EXCEPT !.fileReviewMap = Push(@, comment.filename, comment)]
    ELSE [acc EXCEPT !.outsideDiffRangeComments = Append(@, comment)]

\* The loop body that keeps only potential issues and refactor suggestions
\* of the diff in the file review map.
CategorizeCommentIssuesOnly(acc, comment, isInDiff) ==
    IF comment.type = "nitpick"
    THEN [acc EXCEPT !.assertiveFileReviewMap = Push(@, comment.filename, comment)]
    ELSE IF isInDiff /\ comment.type \in {"potential_issue", "refactor_suggestion"}
    THEN [acc EXCEPT !.fileReviewMap = Push(@, comment.filename, comment)]
    ELSE [acc EXCEPT !.outsideDiffRangeComments = Append(@, comment)]

\* The body of the loop over the comments: a nitpick goes to the assertive
\* map whatever the diff; any other comment goes to the file review map when
\* it is in the diff and to the outside-diff list when it is not.
CategorizeComment(acc, comment, isInDiff) ==
    IF comment.type = "nitpick"
    THEN [acc EXCEPT !.assertiveFileReviewMap = Push(@, comment.filename, comment)]
    ELSE IF isInDiff
    THEN [acc EXCEPT !.fileReviewMap = Push(@, comment.filename, comment)]
    ELSE [acc EXCEPT !.outsideDiffRangeComments = Append(@, comment)]

RECURSIVE CategorizeAll(_, _)
CategorizeAll(comments, map) ==
    IF comments = <<>> THEN EmptyContainers
    ELSE LET last == comments[Len(comments)] IN
         CategorizeComment(CategorizeAll(SubSeq(comments, 1, Len(comments) - 1), map),
                           last, inDiff(last, map))

\* Object.values(record).reduce((acc, val) => acc + val.length, 0)
RECURSIVE CountValues(_)
CountValues(record) ==
    IF DOMAIN record = {} THEN 0
    ELSE LET key == CHOOSE k \in DOMAIN record : TRUE IN
         Len(record[key]) + CountValues([k \in DOMAIN record \ {key} |-> record[k]])

\* The payload of the additional_details event.
AdditionalDetailsPayload(comments, files) ==
    Once(LAMBDA c :
            [counts |-> [assertive |-> CountValues(c.assertiveFileReviewMap),
                         additional |-> CountValues(c.fileReviewMap),
                         outside_diff |-> Len(c.outsideDiffRangeComments)],
             assertiveComments |-> c.assertiveFileReviewMap,
             additionalComments |-> c.fileReviewMap,
             outsideDiffRangeComments |-> c.outsideDiffRangeComments,
             duplicateComments |-> EmptyMap],
         Once(LAMBDA in : CategorizeAll(in.comments, in.changedLinesMap),
              [comments |-> comments, changedLinesMap |-> changedLinesMap(files)]))

(***************************************************************************)
(* The event bus: eventEmitter.emit('reviewEvent', data) calls every       *)
(* registered listener synchronously; a listener forwards the event to its *)
(* subscriber when its filter passes.                                      *)
(***************************************************************************)
onReviewEvent(inputClientId, dataClientId) == dataClientId = inputClientId

Event(type, arg, items, clientId, src) ==
    [k |-> "emit", name |-> type, arg |-> arg, items |-> items,
     clientId |-> clientId, src |-> src]

\* Delivery from a buffer of the client's events: the event reaches every
\* client of its clientId, subscribed at the emission or not.
DeliveredFromBuffer(data) == {c \in ClientIds : onReviewEvent(c, data.clientId)}

\* The subscribers whose listener passes the event on (emit.next(data)).
Delivered(data) == {c \in listeners : onReviewEvent(c, data.clientId)}

\* eventEmitter.emit for each event among `entries`, in order: the event, the
\* subscribers registered when it is emitted, and those it is delivered to.
Emits(reviewId, entries) ==
    LET evs == SelectSeq(entries, LAMBDA e : e.k = "emit")
    IN [n \in 1 .. Len(evs) |->
            [ev |-> evs[n], reviewId |-> reviewId,
             subscribed |-> listeners, to |-> Delivered(evs[n])]]

(***************************************************************************)
(* ReviewService: the instance of slot s carries the reviewId and clientId *)
(* of its request; every event it emits carries both.                      *)
(***************************************************************************)
emitEvent(s, clientId, type, arg, items) == Event(type, arg, items, clientId, s)

ProviderCall(s, clientId, method, items) ==
    [k |-> "call", name |-> method, arg |-> "", items |-> items,
     clientId |-> clientId, src |-> s]

\* The awaited provider call of the session settles: resolved, rejected, or,
\* for the stream, one more item ("yield") or its end ("end").
Settled(s, clientId, method, how) ==
    [k |-> "settle", name |-> method, arg |-> how, items |-> <<>>,
     clientId |-> clientId, src |-> s]

Outcome(ok) == IF ok THEN "resolved" ELSE "rejected"

sendCompletionEvent(s, clientId, status) ==
    emitEvent(s, clientId, "review_completed", status, <<>>)

\* handleError without its step 3 (the terminal event).
handleErrorNoTerminal(s, clientId, overloaded) ==
    << emitEvent(s, clientId,
                 IF overloaded THEN "rate_limit_exceeded" ELSE "error",
                 IF overloaded THEN "The model is overloaded. Please try again later."
                               ELSE "Failed to process AI review.",
                 <<>>),
       emitEvent(s, clientId, "state_update", "failed", <<>>) >>

\* handleError with its steps 1 and 2 exchanged.
handleErrorStateFirst(s, clientId, overloaded) ==
    << emitEvent(s, clientId, "state_update", "failed", <<>>),
       emitEvent(s, clientId,
                 IF overloaded THEN "rate_limit_exceeded" ELSE "error",
                 IF overloaded THEN "The model is overloaded. Please try again later."
                               ELSE "Failed to process AI review.",
                 <<>>),
       sendCompletionEvent(s, clientId, "failed") >>

\* handleError: the error-class event, the failed state update, the terminal event.
handleError(s, clientId, overloaded) ==
    << emitEvent(s, clientId,
                 IF overloaded THEN "rate_limit_exceeded" ELSE "error",
                 IF overloaded THEN "The model is overloaded. Please try again later."
                               ELSE "Failed to process AI review.",
                 <<>>),
       emitEvent(s, clientId, "state_update", "failed", <<>>),
       sendCompletionEvent(s, clientId, "failed") >>

\* generatePrDetails emitting the result event whether or not the call resolved.
PrDetailEventsAlways(s, clientId, type, ok) ==
    << emitEvent(s, clientId, type, "", <<>>) >>

\* One best-effort call of generatePrDetails has settled: its result event is
\* emitted when it resolved; when it rejected the error is logged and dropped.
PrDetailEvents(s, clientId, type, ok) ==
    IF ok THEN << emitEvent(s, clientId, type, "", <<>>) >> ELSE << >>

(***************************************************************************)
(* processAndSendComments: the patch of a suggestion and its rendering.    *)
(* In a patch a name (the filename, 'Original', 'Suggested') is kept as    *)
(* one element of the string.                                              *)
(***************************************************************************)
\* comment.suggestions && comment.suggestions.length > 0
HasSuggestions(comment) ==
    "suggestions" \in DOMAIN comment /\ comment.suggestions # <<>>

\* files.find((f) => f.filename === comment.filename): the index of the
\* first file of that name, 0 when there is none.
FindFile(files, filename) ==
    IF \E n \in DOMAIN files : files[n].filename = filename
    THEN CHOOSE n \in DOMAIN files :
            /\ files[n].filename = filename
            /\ \A m \in 1 .. n - 1 : files[m].filename # filename
    ELSE 0

\* array.slice(begin, end): a negative index counts from the end.
Slice(array, begin, end) ==
    LET len == Len(array)
        Clamp(i) == IF i < 0 THEN (IF len + i < 0 THEN 0 ELSE len + i)
                    ELSE IF i > len THEN len ELSE i
    IN SubSeq(array, Clamp(begin) + 1, Clamp(end))

\* The lines that the package diff sees in a string: none in the empty
\* string, and a final line break ends the last line.
LinesOf(text) ==
    IF text = <<>> THEN <<>>
    ELSE LET pieces == split(text) IN
         IF pieces[Len(pieces)] = <<>>
         THEN SubSeq(pieces, 1, Len(pieces) - 1)
         ELSE pieces

RECURSIVE CommonPrefix(_, _)
CommonPrefix(a, b) ==
    IF a = <<>> \/ b = <<>> \/ Head(a) # Head(b) THEN 0
    ELSE 1 + CommonPrefix(Tail(a), Tail(b))

RECURSIVE CommonSuffix(_, _)
CommonSuffix(a, b) ==
    IF a = <<>> \/ b = <<>> \/ a[Len(a)] # b[Len(b)] THEN 0
    ELSE 1 + CommonSuffix(SubSeq(a, 1, Len(a) - 1), SubSeq(b, 1, Len(b) - 1))

Prefixed(mark, lines) == [i \in DOMAIN lines |-> << mark >> \o lines[i]]

DigitOf(n) == <<"0", "1", "2", "3", "4", "5", "6", "7", "8", "9">>[n + 1]

\* "Index: "
IndexLabel == <<"I", "n", "d", "e", "x", ":", " ">>
\* The line of 67 '=' under the Index line.
Separator == SubSeq([i \in 1 .. 67 |-> "="], 1, 67)
\* "\ No newline at end of file"
NoNewlineMarker == <<"\\", " ", "N", "o", " ", "n", "e", "w", "l", "i", "n", "e", " ", "a", "t", " ", "e", "n", "d", " ", "o", "f", " ", "f", "i", "l", "e">>

\* "@@ -1,n +1,m @@" for a hunk of n old and m new lines (up to 9 each).
HunkHeaderOf(n, m) ==
    <<"@", "@", " ", "-", DigitOf(IF n = 0 THEN 0 ELSE 1), ",", DigitOf(n), " ",
      "+", DigitOf(IF m = 0 THEN 0 ELSE 1), ",", DigitOf(m), " ", "@", "@">>

\* diff.createPatch(fileName, oldStr, newStr, oldHeader, newHeader) of the
\* package diff, for two strings of a few lines that do not end in a line
\* break: the four lines of the patch header and, unless the strings are
\* equal, one hunk, in which the lines common to the start and to the end
\* of both are context lines and the lines between are removed and added;
\* then the marker of the missing final line break, and the line break that
\* ends the patch.
createPatch(fileName, oldStr, newStr, oldHeader, newHeader) ==
    LET oldLines == LinesOf(oldStr)
        newLines == LinesOf(newStr)
        p == CommonPrefix(oldLines, newLines)
        q == CommonSuffix(SubSeq(oldLines, p + 1, Len(oldLines)),
                          SubSeq(newLines, p + 1, Len(newLines)))
        hunk == IF oldLines = newLines THEN <<>>
                ELSE << HunkHeaderOf(Len(oldLines), Len(newLines)) >>
                     \o Prefixed(" ", SubSeq(oldLines, 1, p))
                     \o Prefixed("-", SubSeq(oldLines, p + 1, Len(oldLines) - q))
                     \o Prefixed("+", SubSeq(newLines, p + 1, Len(newLines) - q))
                     \o Prefixed(" ", SubSeq(oldLines, Len(oldLines) - q + 1, Len(oldLines)))
                     \o << NoNewlineMarker >>
    IN join(<< IndexLabel \o << fileName >>,
               Separator,
               <<"-", "-", "-", " ", fileName, "\t", oldHeader>>,
               <<"+", "+", "+", " ", fileName, "\t", newHeader>> >>
            \o hunk \o << <<>> >>)

Whitespace == {" ", "\t", NL}

\* The callback of patchLines.filter: lines that start with '+' or '-', but
\* not with '+++' or '---', and that are not blank.
KeepsLine(line) ==
    /\ startsWith(line, <<"+">>) \/ startsWith(line, <<"-">>)
    /\ ~startsWith(line, <<"+", "+", "+">>)
    /\ ~startsWith(line, <<"-", "-", "-">>)
    /\ \E i \in DOMAIN line : line[i] \notin Whitespace

cleanDiffLines(patchLines) == SelectSeq(patchLines, KeepsLine)

\* The fences of a block of diff in Markdown: three backticks and the
\* word diff open it, three backticks close it.
\* (The backtick, which a string of this language cannot hold, is the
\* element "backtick".)
Backtick == "backtick"
FenceOpen == <<Backtick, Backtick, Backtick, "d", "i", "f", "f">>
FenceClose == <<Backtick, Backtick, Backtick>>

\* The fence, cleanDiffLines.join('\n'), the fence, each on lines of its own.
suggestionDiff(clean) ==
    FenceOpen \o << NL >> \o join(clean) \o << NL >> \o FenceClose

\* The payload of the review_comment event of one comment.  Beside the
\* fields of the comment itself (the event carries the comment), it has the
\* indicator types, the patch of the first suggestion when the comment has
\* suggestions and its file is among the files, and, appended to the text of
\* the comment, the rendered diff of a patch that has lines to show.  (Of
\* the text only the part appended is kept; a field that is undefined is not
\* in the record.)
CommentPayloadAnyFile(comment, files) ==
    LET payload == [indicatorTypes |-> << comment.type >>, comment |-> <<>>] IN
    IF HasSuggestions(comment)
    THEN LET n == FindFile(files, comment.filename)
             fileLines == IF n = 0 THEN << <<>> >> ELSE split(files[n].fileContent)
             originalCodeBlock ==
                 join(Slice(fileLines, comment.startLine - 1, comment.endLine))
             patch == createPatch(comment.filename, originalCodeBlock,
                                  comment.suggestions[1], "Original", "Suggested")
             clean == cleanDiffLines(split(patch))
         IN [indicatorTypes |-> << comment.type >>,
             comment |-> IF clean # <<>>
                         THEN << NL, NL >> \o suggestionDiff(clean)
                         ELSE <<>>,
             suggestionDiff |-> patch]
    ELSE payload

CommentPayload(comment, files) ==
    LET payload == [indicatorTypes |-> << comment.type >>, comment |-> <<>>]
        n == FindFile(files, comment.filename) IN
    IF HasSuggestions(comment) /\ n # 0
    THEN LET fileLines == split(files[n].fileContent)
             originalCodeBlock ==
                 join(Slice(fileLines, comment.startLine - 1, comment.endLine))
             patch == createPatch(comment.filename, originalCodeBlock,
                                  comment.suggestions[1], "Original", "Suggested")
             clean == cleanDiffLines(split(patch))
         IN [indicatorTypes |-> << comment.type >>,
             comment |-> IF clean # <<>>
                         THEN << NL, NL >> \o suggestionDiff(clean)
                         ELSE <<>>,
             suggestionDiff |-> patch]
    ELSE payload

\* processAndSendComments: one review_comment event per comment, in order.
\* The items of the event are the comment and the payload made of it.
processAndSendComments(s, clientId, comments, files) ==
    [i \in 1 .. Len(comments) |->
        emitEvent(s, clientId, "review_comment", "",
                  << comments[i], CommentPayload(comments[i], files) >>)]

\* The fallback branch of run with the batch output taking the place of the
\* streamed comments.
PushSyncCommentsReplacing(allComments, syncComments) == syncComments

\* allComments.push(...syncComments) in the fallback branch of run.
PushSyncComments(allComments, syncComments) == allComments \o syncComments

\* A request that a provider method sends to the model (callObject).
ModelRequest(s, clientId, method, items) ==
    [k |-> "request", name |-> method, arg |-> "", items |-> items,
     clientId |-> clientId, src |-> s]

\* generateReviewSummary asking the model whatever the comments are.
generateReviewSummaryAlwaysAsks(s, clientId, comments) ==
    << ProviderCall(s, clientId, "generateReviewSummary", comments),
       ModelRequest(s, clientId, "generateReviewSummary", comments) >>

\* UnifiedAiProvider.generateReviewSummary up to its await: an empty list of
\* comments is answered with the canned summary and no request is made; any
\* other list goes to the model.  (The other provider methods have no such
\* branch: their call is their request.)
generateReviewSummary(s, clientId, comments) ==
    IF comments = <<>>
    THEN << ProviderCall(s, clientId, "generateReviewSummary", comments) >>
    ELSE << ProviderCall(s, clientId, "generateReviewSummary", comments),
            ModelRequest(s, clientId, "generateReviewSummary", comments) >>

\* The same run with generateAndSendSummary making its call unannounced.
CategorizeAndSummarizeSilent(s, clientId, sorted, files) ==
    << emitEvent(s, clientId, "additional_details",
                 AdditionalDetailsPayload(sorted, files), sorted) >> \o
    generateReviewSummary(s, clientId, sorted)

\* The run from the end of the review loop to the await of the summary call:
\* categorizeAndSendDetails over the sorted comments, the progress event, and
\* the call of generateReviewSummary.
CategorizeAndSummarize(s, clientId, sorted, files) ==
    << emitEvent(s, clientId, "additional_details",
                 AdditionalDetailsPayload(sorted, files), sorted),
       emitEvent(s, clientId, "thinking_update",
                 "Generating a summary of the review...", <<>>) >> \o
    generateReviewSummary(s, clientId, sorted)

\* generateReviewSummary answers an empty list of comments itself, with no
\* request to the model, so only a non-empty list can make it reject.
SummaryCanFail(comments) == comments # <<>>

\* generateAndSendSummary reporting a rejected call through handleError
\* instead of swallowing it, with run going on to its completion event.
SummaryEventsReportError(s, clientId, comments, ok) ==
    IF ok
    THEN << emitEvent(s, clientId, "short_summary",
                      IF comments = <<>> THEN "No issues found." ELSE "shortSummary",
                      <<>>),
            emitEvent(s, clientId, "summary_comment",
                      IF comments = <<>>
                      THEN "Great work! No issues were found in the code."
                      ELSE "summary",
                      <<>>) >>
    ELSE handleError(s, clientId, FALSE)

\* generateAndSendSummary emitting the summary events of a call that rejected.
SummaryEventsAlways(s, clientId, comments, ok) ==
    << emitEvent(s, clientId, "short_summary",
                 IF comments = <<>> THEN "No issues found." ELSE "shortSummary",
                 <<>>),
       emitEvent(s, clientId, "summary_comment",
                 IF comments = <<>>
                 THEN "Great work! No issues were found in the code."
                 ELSE "summary",
                 <<>>) >>

\* generateAndSendSummary after the call has settled.
SummaryEvents(s, clientId, comments, ok) ==
    IF ok
    THEN << emitEvent(s, clientId, "short_summary",
                      IF comments = <<>> THEN "No issues found." ELSE "shortSummary",
                      <<>>),
            emitEvent(s, clientId, "summary_comment",
                      IF comments = <<>>
                      THEN "Great work! No issues were found in the code."
                      ELSE "summary",
                      <<>>) >>
    ELSE << >>

\* A handler run for reviewId r: its emits go over the bus as they happen.
Append1(r, entries) ==
    /\ log' = [log EXCEPT ![r] = @ \o entries]
    /\ bus' = Emits(r, entries)

IdleSession ==
    [pc |-> "idle", reviewId |-> Nil, clientId |-> Nil, files |-> <<>>,
     allComments |-> <<>>]

(***************************************************************************)
(* retryWithBackoff.  An error is what an invocation of the operation      *)
(* throws: its class, its isRetryable flag (a RetryableError has one) and  *)
(* its message, with the number of the invocation that threw it.  The      *)
(* options of a call are a record of the options given.                    *)
(***************************************************************************)
DefaultMaxRetries == 3
DefaultBaseDelayMs == 1000
DefaultMaxDelayMs == 30000
DefaultBackoffMultiplier == 2

\* new Error(message), thrown by invocation n.
Error(message, n) == [name |-> "Error", message |-> message, n |-> n]

\* new RetryableError(message, isRetryable), thrown by invocation n.
RetryableError(message, isRetryable, n) ==
    [name |-> "RetryableError", isRetryable |-> isRetryable, message |-> message,
     n |-> n]

\* The words isRetryableAIError looks for in the message of an error.
retryableMessages ==
    {"network", "timeout", "rate limit", "overloaded", "service unavailable",
     "internal server error", "bad gateway", "gateway timeout"}

\* isRetryableAIError.  (A message is one word here: it includes a word of
\* the list when it is one.)
isRetryableAIError(error) ==
    IF error.name = "RetryableError" THEN error.isRetryable
    ELSE error.message \in retryableMessages

\* The retryCondition of a call: the option when it is given (the function
\* isRetryableAIError, or () => false), () => true when it is not.
retryCondition(options, error) ==
    IF "retryCondition" \notin DOMAIN options THEN TRUE
    ELSE CASE options.retryCondition = "isRetryableAIError" -> isRetryableAIError(error)
           [] options.retryCondition = "never" -> FALSE

\* maxRetries = 3 unless the option is given.
maxRetriesOf(options) ==
    IF "maxRetries" \in DOMAIN options THEN options.maxRetries ELSE DefaultMaxRetries

RECURSIVE Pow(_, _)
Pow(base, exponent) == IF exponent = 0 THEN 1 ELSE base * Pow(base, exponent - 1)

Min(a, b) == IF a <= b THEN a ELSE b

\* Math.min(baseDelayMs * Math.pow(backoffMultiplier, attempt), maxDelayMs)
BackoffDelay(attempt) ==
    Min(DefaultBaseDelayMs * Pow(DefaultBackoffMultiplier, attempt), DefaultMaxDelayMs)

\* The loop running one pass more before it gives up.
LastAttemptLate(attempt, maxRetries) == attempt = maxRetries + 1

\* attempt === maxRetries
LastAttempt(attempt, maxRetries) == attempt = maxRetries

\* An invocation of the operation: awaited, resolved, or rejected with an
\* error.
Pending == [outcome |-> "pending"]
Resolved == [outcome |-> "resolved"]
Rejected(error) == [outcome |-> "rejected", error |-> error]

\* No call of retryWithBackoff yet.  `invocations` holds the invocations of
\* the operation, in order; `delays` the
\* delays waited; `settled` how the call ended ("returned" with `value`, the
\* number of the invocation whose result it is, or "thrown" with `thrown`).
IdleRetry ==
    [pc |-> "idle", options |-> EmptyMap, attempt |-> 0,
     lastError |-> Nil, invocations |-> <<>>, delays |-> <<>>,
     settled |-> Nil, value |-> Nil, thrown |-> Nil]

(***************************************************************************)
(* RateLimiter.  `clients` is the Map of the limiter (clientId -> its      *)
(* ClientData), `now` what Date.now() returns, in milliseconds, and        *)
(* `calls` the calls made of the limiter, in order, each with the time of  *)
(* the call and, for a check, the result returned.                         *)
(***************************************************************************)
NoRateLimiter ==
    [constructed |-> FALSE, config |-> EmptyMap, clients |-> EmptyMap, now |-> 0,
     calls |-> <<>>]

\* Math.ceil(ms / 1000), for ms >= 0
CeilSeconds(ms) == (ms + 999) \div 1000

\* The window of a client still open at its reset time.
ExpiredAfter(now, clientData) == now > clientData.resetTime

\* now >= clientData.resetTime
Expired(now, clientData) == now >= clientData.resetTime

\* The limit reached one request late.
ExceededLate(clientData, config) == clientData.count > config.maxRequests

\* clientData.count >= this.config.maxRequests
Exceeded(clientData, config) == clientData.count >= config.maxRequests

\* The RateLimitResult that check returns.
checkResult(clients, config, clientId, now) ==
    IF clientId \notin DOMAIN clients \/ Expired(now, clients[clientId])
    THEN [allowed |-> TRUE, remaining |-> config.maxRequests - 1,
          resetTime |-> now + config.windowMs]
    ELSE IF Exceeded(clients[clientId], config)
    THEN [allowed |-> FALSE, remaining |-> 0,
          resetTime |-> clients[clientId].resetTime,
          retryAfter |-> CeilSeconds(clients[clientId].resetTime - now)]
    ELSE [allowed |-> TRUE,
          remaining |-> config.maxRequests - (clients[clientId].count + 1),
          resetTime |-> clients[clientId].resetTime]

\* The Map of the limiter after check.
checkClients(clients, config, clientId, now) ==
    IF clientId \notin DOMAIN clients \/ Expired(now, clients[clientId])
    THEN MapSet(clients, clientId,
                [count |-> 1, resetTime |-> now + config.windowMs,
                 firstRequestTime |-> now])
    ELSE IF Exceeded(clients[clientId], config)
    THEN clients
    ELSE [clients EXCEPT ![clientId].count = @ + 1]

\* The entries of `map` under the keys `keys`.
RECURSIVE SubSeqOfMap(_, _)
SubSeqOfMap(map, keys) ==
    IF keys = {} THEN EmptyMap
    ELSE LET key == CHOOSE k \in keys : TRUE
         IN (key :> map[key]) @@ SubSeqOfMap(map, keys \ {key})

\* map.delete(key)
MapDelete(map, key) == SubSeqOfMap(map, DOMAIN map \ {key})

\* cleanup: every client whose window has expired is deleted.
cleanupClients(clients, now) ==
    LET kept == {c \in DOMAIN clients : ~(now >= clients[c].resetTime)}
    IN SubSeqOfMap(clients, kept)

(***************************************************************************)
(* LRUCache.  `entries` is the Map of the cache in its iteration order     *)
(* (the order of insertion), each entry with its key; `now` is what        *)
(* Date.now() returns.  Beside the cache, `ops` counts the operations      *)
(* made, `lastUse` keeps for every key the number of the last operation    *)
(* that used it (a set, or a get that returned its value), and `last`      *)
(* describes the last operation with the entries and uses before it.       *)
(* (stats.hitRate, a function of hits and misses, is left out.)            *)
(***************************************************************************)
NoLRUCache ==
    [constructed |-> FALSE, maxSize |-> 0, defaultTTL |-> 0, entries |-> <<>>,
     stats |-> [size |-> 0, hits |-> 0, misses |-> 0, evictions |-> 0],
     now |-> 0, ops |-> 0, lastUse |-> EmptyMap, last |-> [op |-> "none"]]

\* this.cache.get(key): the index of the entry of `key`, 0 when it has none.
IndexOf(entries, key) ==
    IF \E i \in DOMAIN entries : entries[i].key = key
    THEN CHOOSE i \in DOMAIN entries : entries[i].key = key
    ELSE 0

\* this.cache.delete(key)
Without(entries, key) == SelectSeq(entries, LAMBDA e : e.key # key)

\* Date.now() - entry.timestamp > entry.ttl
IsExpired(entry, now) == now - entry.timestamp > entry.ttl

\* ttl || this.defaultTTL, the optional ttl being <<>> when it is not given
ttlOrDefault(ttl, defaultTTL) ==
    IF ttl = <<>> \/ ttl[1] = 0 THEN defaultTTL ELSE ttl[1]

\* if (firstKey): a string is truthy unless it is empty.
Truthy(string) == string # ""

\* evictLRU: the first key of the Map is deleted, when there is one and it
\* is truthy.
evictLRU(c) ==
    IF c.entries # <<>> /\ Truthy(c.entries[1].key)
    THEN [c EXCEPT !.entries = Tail(@),
                   !.stats.size = @ - 1,
                   !.stats.evictions = @ + 1]
    ELSE c

\* The bookkeeping of an operation: its number, and what it was.
Operation(c, op, key) ==
    [c EXCEPT !.ops = @ + 1,
              !.last = [op |-> op, key |-> key, entries |-> cache.entries,
                        lastUse |-> cache.lastUse, now |-> cache.now]]

Used(c, key) == [c EXCEPT !.lastUse = MapSet(@, key, c.ops)]

(***************************************************************************)
(* Monitor: the review metrics (metrics.reviews without its averages,      *)
(* which are functions of Date.now()) and the Map activeReviews, from      *)
(* reviewId to the ReviewMetrics of the review.                            *)
(***************************************************************************)
\* initializeMetrics and the empty Map of a new Monitor.
NewMonitor ==
    [reviews |-> [total |-> 0, completed |-> 0, failed |-> 0, inProgress |-> 0],
     activeReviews |-> EmptyMap]

ReviewMetrics(reviewId, clientId, fileCount) ==
    [reviewId |-> reviewId, clientId |-> clientId, fileCount |-> fileCount,
     status |-> "in_progress"]

Init ==
    /\ sessions = [s \in Slots |-> IdleSession]
    /\ log = [r \in ReviewIds |-> <<>>]
    /\ listeners = {}
    /\ bus = <<>>
    /\ activeReviews = {}
    /\ retry = IdleRetry
    /\ limiter = NoRateLimiter
    /\ cache = NoLRUCache
    /\ monitor = NewMonitor

(***************************************************************************)
(* Router procedures.                                                      *)
(***************************************************************************)
\* subscribeToEvents: eventEmitter.on('reviewEvent', onReviewEvent).
\* (The model keeps at most one subscriber per clientId.)
Subscribe(clientId) ==
    /\ clientId \notin listeners
    /\ listeners' = listeners \cup {clientId}
    /\ bus' = <<>>
    /\ UNCHANGED <<sessions, log, activeReviews>>
    /\ UNCHANGED utilities

\* The teardown of the subscription: eventEmitter.off('reviewEvent', onReviewEvent).
Unsubscribe(clientId) ==
    /\ clientId \in listeners
    /\ listeners' = listeners \ {clientId}
    /\ bus' = <<>>
    /\ UNCHANGED <<sessions, log, activeReviews>>
    /\ UNCHANGED utilities

\* The value requestFullReview returns for an accepted request
\* ({ success: true, ..., reviewId, rateLimitInfo }), as an entry of the
\* history of the review it answers for.
Response(s, clientId) ==
    [k |-> "response", name |-> "requestFullReview", arg |-> "success",
     items |-> <<>>, clientId |-> clientId, src |-> s]

\* run announcing the summarizing stage before its in-progress state update.
RunToFirstAwaitStatusFirst(s, clientId) ==
    << emitEvent(s, clientId, "review_status", "summarizing", <<>>),
       emitEvent(s, clientId, "state_update", "in_progress", <<>>),
       emitEvent(s, clientId, "product_settings", "", <<>>),
       emitEvent(s, clientId, "thinking_update",
                 "Generating a title for your review...", <<>>),
       ProviderCall(s, clientId, "generateReviewTitle", <<>>) >>

\* ReviewService.run from its start to its first await: the call of
\* generateReviewTitle inside generatePrDetails.
RunToFirstAwait(s, clientId) ==
    << emitEvent(s, clientId, "state_update", "in_progress", <<>>),
       emitEvent(s, clientId, "product_settings", "", <<>>),
       emitEvent(s, clientId, "review_status", "summarizing", <<>>),
       emitEvent(s, clientId, "thinking_update",
                 "Generating a title for your review...", <<>>),
       ProviderCall(s, clientId, "generateReviewTitle", <<>>) >>

\* The procedure awaiting the promise of run: no response while run is
\* suspended.
StartReviewAwaited(s, clientId) == RunToFirstAwait(s, clientId)

\* const reviewPromise = reviewService.run(reviewFiles), not awaited (a
\* catch handler is attached to it), then the return statement: run
\* executes to its first await inside the call, and the procedure goes on
\* to return its response in the same handler run.
StartReview(s, clientId) ==
    RunToFirstAwait(s, clientId) \o << Response(s, clientId) >>

\* requestFullReview creating and running the ReviewService before the
\* admission checks.
RequestFullReviewRunFirst(s, reviewId, clientId, files, admission) ==
    /\ sessions[s].pc = "idle"
    /\ activeReviews' = activeReviews \cup {reviewId}
    /\ sessions' = [sessions EXCEPT ![s] =
            [pc |-> "title", reviewId |-> reviewId, clientId |-> clientId,
             files |-> files, allComments |-> <<>>]]
    /\ Append1(reviewId,
               IF admission # "ok" THEN RunToFirstAwait(s, clientId)
               ELSE StartReview(s, clientId))
    /\ UNCHANGED listeners
    /\ UNCHANGED utilities

\* requestFullReview.  `admission` is what rateLimiter.check and
\* defaultFileValidator.validateFiles answer for the request (the limiter's
\* window counters are not part of this state); a rejected request throws
\* before a ReviewService is created.  An accepted one starts
\* run, which executes up to its first await (the title call) before the
\* procedure returns its response.
RequestFullReview(s, reviewId, clientId, files, admission) ==
    /\ sessions[s].pc = "idle"
    /\ IF admission # "ok"
       THEN bus' = <<>> /\ UNCHANGED <<sessions, log, listeners, activeReviews>>
       ELSE /\ activeReviews' = activeReviews \cup {reviewId}
            /\ sessions' = [sessions EXCEPT ![s] =
                    [pc |-> "title", reviewId |-> reviewId, clientId |-> clientId,
                     files |-> files, allComments |-> <<>>]]
            /\ Append1(reviewId, StartReview(s, clientId))
            /\ UNCHANGED listeners
    /\ UNCHANGED utilities

\* stopReview: emits the cancelled terminal event with clientId '*'; it
\* reads and writes nothing else.
StopReview(reviewId) ==
    /\ Append1(reviewId,
            << Event("review_completed", "cancelled", <<>>, "*", Router) >>)
    /\ UNCHANGED <<sessions, listeners, activeReviews>>
    /\ UNCHANGED utilities

(***************************************************************************)
(* ReviewService.run, one action per resumption.                           *)
(***************************************************************************)
TitleReturns(s, ok) ==
    LET self == sessions[s] IN
    /\ self.pc = "title"
    /\ sessions' = [sessions EXCEPT ![s].pc = "objective"]
    /\ Append1(self.reviewId,
            << Settled(s, self.clientId, "generateReviewTitle", Outcome(ok)) >> \o
            PrDetailEvents(s, self.clientId, "pr_title", ok) \o
            << emitEvent(s, self.clientId, "thinking_update",
                         "Formulating the objective...", <<>>),
               ProviderCall(s, self.clientId, "generatePrObjective", <<>>) >>)
    /\ UNCHANGED <<listeners, activeReviews>>
    /\ UNCHANGED utilities

ObjectiveReturns(s, ok) ==
    LET self == sessions[s] IN
    /\ self.pc = "objective"
    /\ sessions' = [sessions EXCEPT ![s].pc = "walkthrough"]
    /\ Append1(self.reviewId,
            << Settled(s, self.clientId, "generatePrObjective", Outcome(ok)) >> \o
            PrDetailEvents(s, self.clientId, "pr_objective", ok) \o
            << emitEvent(s, self.clientId, "thinking_update",
                         "Preparing a walkthrough...", <<>>),
               ProviderCall(s, self.clientId, "generateWalkThrough", <<>>) >>)
    /\ UNCHANGED <<listeners, activeReviews>>
    /\ UNCHANGED utilities

WalkThroughReturns(s, ok) ==
    LET self == sessions[s] IN
    /\ self.pc = "walkthrough"
    /\ sessions' = [sessions EXCEPT ![s].pc = "stream"]
    /\ Append1(self.reviewId,
            << Settled(s, self.clientId, "generateWalkThrough", Outcome(ok)) >> \o
            PrDetailEvents(s, self.clientId, "walk_through", ok) \o
            << emitEvent(s, self.clientId, "review_status", "reviewing", <<>>),
               ProviderCall(s, self.clientId, "streamCodeReview", <<>>) >>)
    /\ UNCHANGED <<listeners, activeReviews>>
    /\ UNCHANGED utilities

\* The stream yields one comment: it is pushed and sent at once.
StreamYields(s, comment) ==
    LET self == sessions[s] IN
    /\ self.pc = "stream"
    /\ sessions' = [sessions EXCEPT ![s].allComments = Append(@, comment)]
    /\ Append1(self.reviewId,
            << Settled(s, self.clientId, "streamCodeReview", "yield") >> \o
            processAndSendComments(s, self.clientId, << comment >>, self.files))
    /\ UNCHANGED <<listeners, activeReviews>>
    /\ UNCHANGED utilities

\* The review loop with its fallback in a finally block: the batch call is
\* made although the stream ended without an error.
StreamCompletesThenBatch(s) ==
    LET self == sessions[s] IN
    /\ self.pc = "stream"
    /\ sessions' = [sessions EXCEPT ![s].pc = "batch"]
    /\ Append1(self.reviewId,
            << Settled(s, self.clientId, "streamCodeReview", "end"),
               ProviderCall(s, self.clientId, "performCodeReview", <<>>) >>)
    /\ UNCHANGED <<listeners, activeReviews>>
    /\ UNCHANGED utilities

\* The stream ends without an error.
StreamCompletes(s) ==
    LET self == sessions[s]
        sorted == SortComments(self.allComments) IN
    /\ self.pc = "stream"
    /\ sessions' = [sessions EXCEPT ![s].pc = "summary", ![s].allComments = sorted]
    /\ Append1(self.reviewId,
            << Settled(s, self.clientId, "streamCodeReview", "end") >> \o
            CategorizeAndSummarize(s, self.clientId, sorted, self.files))
    /\ UNCHANGED <<listeners, activeReviews>>
    /\ UNCHANGED utilities

\* The stream throws: the catch of the review loop calls performCodeReview.
StreamFails(s) ==
    LET self == sessions[s] IN
    /\ self.pc = "stream"
    /\ sessions' = [sessions EXCEPT ![s].pc = "batch"]
    /\ Append1(self.reviewId,
            << Settled(s, self.clientId, "streamCodeReview", "rejected"),
               ProviderCall(s, self.clientId, "performCodeReview", <<>>) >>)
    /\ UNCHANGED <<listeners, activeReviews>>
    /\ UNCHANGED utilities

\* performCodeReview resolves with syncComments.
BatchReturns(s, syncComments) ==
    LET self == sessions[s]
        all == PushSyncComments(self.allComments, syncComments)
        sorted == SortComments(all) IN
    /\ self.pc = "batch"
    /\ sessions' = [sessions EXCEPT ![s].pc = "summary", ![s].allComments = sorted]
    /\ Append1(self.reviewId,
            << Settled(s, self.clientId, "performCodeReview", "resolved") >> \o
            processAndSendComments(s, self.clientId, syncComments, self.files) \o
            CategorizeAndSummarize(s, self.clientId, sorted, self.files))
    /\ UNCHANGED <<listeners, activeReviews>>
    /\ UNCHANGED utilities

\* What the call of the model throws when the request fails: an error of
\* the ai package with the response it got (isRetryable, responseBody).  A
\* message is one word, a response body a sequence of words.
ModelFailure(message, isRetryable, responseBody) ==
    [name |-> "AI_APICallError", message |-> message, isRetryable |-> isRetryable,
     responseBody |-> responseBody]

\* string.includes(word)
Includes(string, word) == \E i \in DOMAIN string : string[i] = word

\* The catch of withRetry: new RetryableError(prefix + message,
\* isRetryableAIError(error)), which retryWithBackoff throws on as it is
\* after its last attempt.  The error has a name, a message and
\* isRetryable, and no cause.
withRetry(prefix, error) ==
    [name |-> "RetryableError", message |-> << prefix, error.message >>,
     isRetryable |-> isRetryableAIError(error)]

\* isRetryableCause: an object whose isRetryable, if it has one, is a
\* boolean and whose responseBody, if it has one, is a string.  (Every cause
\* here is an error object with fields of these types.)
isRetryableCause(cause) == DOMAIN cause # {}

\* cause.responseBody ?? ''
responseBodyOf(cause) ==
    IF "responseBody" \in DOMAIN cause THEN cause.responseBody ELSE <<>>

\* The test of handleError: the error has a cause that is retryable and
\* whose response body includes 'overloaded'.
IsOverloaded(error) ==
    /\ "cause" \in DOMAIN error
    /\ isRetryableCause(error.cause)
    /\ "isRetryable" \in DOMAIN error.cause /\ error.cause.isRetryable
    /\ Includes(responseBodyOf(error.cause), "overloaded")

\* performCodeReview rejects with what withRetry made of the failure of
\* the model's call: the outer catch of run.
BatchFails(s, failure) ==
    LET self == sessions[s]
        error == withRetry("Failed to perform code review", failure) IN
    /\ self.pc = "batch"
    /\ sessions' = [sessions EXCEPT ![s].pc = "done"]
    /\ activeReviews' = activeReviews \ {self.reviewId}
    /\ Append1(self.reviewId,
            << [Settled(s, self.clientId, "performCodeReview", "rejected")
                    EXCEPT !.items = << failure >>] >> \o
            handleError(s, self.clientId, IsOverloaded(error)))
    /\ UNCHANGED listeners
    /\ UNCHANGED utilities

\* generateReviewSummary settles; run completes the review.
SummaryReturns(s, ok) ==
    LET self == sessions[s] IN
    /\ self.pc = "summary"
    /\ ok \/ SummaryCanFail(self.allComments)
    /\ sessions' = [sessions EXCEPT ![s].pc = "done"]
    /\ activeReviews' = activeReviews \ {self.reviewId}
    /\ Append1(self.reviewId,
            << Settled(s, self.clientId, "generateReviewSummary", Outcome(ok)) >> \o
            SummaryEvents(s, self.clientId, self.allComments, ok) \o
            << sendCompletionEvent(s, self.clientId, "completed") >>)
    /\ UNCHANGED listeners
    /\ UNCHANGED utilities

\* The failures of the model's call: the model overloaded (a 503, which is
\* retryable), a timeout (retryable, with no word of it in the response),
\* and a request the model refuses (not retryable) in a response that has
\* the word.
ModelFailures ==
    {ModelFailure("overloaded", TRUE, <<"The", "model", "is", "overloaded">>),
     ModelFailure("timeout", TRUE, <<>>),
     ModelFailure("invalid", FALSE, <<"overloaded">>)}

(***************************************************************************)
(* The environment of a session: the AI provider.  Each awaited call       *)
(* settles one way or the other; `oks` is the set of outcomes the provider *)
(* may give a single-valued call (TRUE resolves, FALSE rejects), and the   *)
(* stream yields at most maxStream comments, the batch call at most        *)
(* maxBatch.                                                               *)
(***************************************************************************)
Resume(s, oks, maxStream, maxBatch) ==
    \/ \E ok \in oks : TitleReturns(s, ok)
    \/ \E ok \in oks : ObjectiveReturns(s, ok)
    \/ \E ok \in oks : WalkThroughReturns(s, ok)
    \/ /\ Len(sessions[s].allComments) < maxStream
       /\ StreamYields(s, StreamComment(Len(sessions[s].allComments) + 1))
    \/ StreamCompletes(s)
    \/ StreamFails(s)
    \/ \E n \in 0 .. maxBatch : BatchReturns(s, BatchOutput(n))
    \/ \E failure \in ModelFailures : BatchFails(s, failure)
    \/ \E ok \in oks : SummaryReturns(s, ok)

Admissions == {"ok", "rate_limited", "invalid"}

(***************************************************************************)
(* The files of a request.  A File is a filename and the unified diff of   *)
(* the file (its content is not read by what is modelled here).            *)
(***************************************************************************)
File(filename, diffLines) == [filename |-> filename, diff |-> join(diffLines)]

\* "@@ -1,2 +1,3 @@"
HunkHeader ==
    <<"@", "@", " ", "-", "1", ",", "2", " ", "+", "1", ",", "3", " ", "@", "@">>
\* "@@ -8 +10 @@": a header without counts.
HunkHeaderNoCounts ==
    <<"@", "@", " ", "-", "8", " ", "+", "1", "0", " ", "@", "@">>
\* "@@@ -1 -1 +1 @@@", the header of a combined diff: it starts with "@@"
\* and does not match the pattern.
MalformedHeader ==
    <<"@", "@", "@", " ", "-", "1", " ", "-", "1", " ", "+", "1", " ", "@", "@", "@">>
AddedLine == <<"+", "x">>
ContextLine == <<" ", "x">>
RemovedLine == <<"-", "x">>

\* The diff "@@ -1,2 +1,3 @@\n line1\n+line2\n line3".
ExampleDiff == << HunkHeader, ContextLine, AddedLine, ContextLine >>

ExampleFiles == << File("a.ts", ExampleDiff) >>

RouterEvents(r) == SelectSeq(log[r], LAMBDA e : e.src = Router)

RECURSIVE StopsIn(_)
StopsIn(S) ==
    IF S = {} THEN 0
    ELSE LET r == CHOOSE x \in S : TRUE IN Len(RouterEvents(r)) + StopsIn(S \ {r})

TotalStops == StopsIn(ReviewIds)

(***************************************************************************)
(* Spec: one review session, with every outcome of every provider call,    *)
(* and stop requests for its reviewId and for another arriving at any      *)
(* moment.  No client is subscribed, and no action treats one reviewId or  *)
(* clientId differently from another, so the session is r1 of client c1;   *)
(* its request carries one file.                                           *)
(***************************************************************************)
Next ==
    \/ \E a \in Admissions : RequestFullReview(1, "r1", "c1", ExampleFiles, a)
    \/ \E r \in ReviewIds : TotalStops < MaxStops /\ StopReview(r)
    \/ Resume(1, BOOLEAN, MaxStream, MaxBatch)

Spec == Init /\ [][Next]_vars

\* Every provider call eventually resolves or rejects, and the stream ends.
FairSpec == Spec /\ WF_vars(Resume(1, BOOLEAN, MaxStream, MaxBatch))

(***************************************************************************)
(* SpecBus: concurrent sessions and subscribers on the shared event bus.   *)
(* Requests take the free slots in order; each carries a reviewId of its   *)
(* own (the extension generates one per review) and the clientId of a      *)
(* client: the first comes from c1, the second from c1 or c2.  Subscribers *)
(* may also register under the clientId '*'.                               *)
(***************************************************************************)
FreeSlot(s) == sessions[s].pc = "idle" /\ \A q \in Slots : q < s => sessions[q].pc # "idle"

FreshReviewId(s) == IF s = 1 THEN "r1" ELSE "r2"

Requesters(s) == IF s = 1 THEN {"c1"} ELSE {"c1", "c2"}

NextBus ==
    \/ \E s \in Slots, a \in Admissions : \E c \in Requesters(s) :
            FreeSlot(s) /\ RequestFullReview(s, FreshReviewId(s), c, ExampleFiles, a)
    \/ \E r \in ReviewIds : TotalStops < MaxStops /\ StopReview(r)
    \/ \E c \in ClientIds : Subscribe(c)
    \/ \E c \in ClientIds : Unsubscribe(c)
    \/ \E s \in Slots : Resume(s, {TRUE}, BusMaxStream, BusMaxBatch)

SpecBus == Init /\ [][NextBus]_vars

(***************************************************************************)
(* The provider of SpecIndex and SpecClassify: every call resolves, and    *)
(* the stream yields up to maxFindings comments out of `findings`.         *)
(***************************************************************************)
Review(s, findings, maxFindings) ==
    \/ TitleReturns(s, TRUE)
    \/ ObjectiveReturns(s, TRUE)
    \/ WalkThroughReturns(s, TRUE)
    \/ \E comment \in findings :
            Len(sessions[s].allComments) < maxFindings /\ StreamYields(s, comment)
    \/ StreamCompletes(s)
    \/ SummaryReturns(s, TRUE)

Finding(filename, startLine, endLine, type) ==
    [origin |-> "stream", filename |-> filename, startLine |-> startLine,
     endLine |-> endLine, type |-> type]

\* The line ranges of the comments: inside the hunk of ExampleDiff, over
\* the whole of it, and far from it.
Ranges == {<<2, 2>>, <<1, 3>>, <<10, 10>>}

IssueTypes ==
    {"potential_issue", "refactor_suggestion", "nitpick", "verification", "other"}

(***************************************************************************)
(* SpecIndex: one review over every diff of up to MaxDiffLines lines.  The *)
(* request carries a.ts with a diff made of hunk headers (one well-formed, *)
(* one malformed), added, context and removed lines, alone or next to      *)
(* b.ts, before it or after it.                                            *)
(***************************************************************************)
DiffLineKinds == {HunkHeader, MalformedHeader, AddedLine, ContextLine, RemovedLine}

RECURSIVE DiffsOfLength(_)
DiffsOfLength(n) ==
    IF n = 0 THEN {<<>>}
    ELSE {Append(d, line) : d \in DiffsOfLength(n - 1), line \in DiffLineKinds}

Diffs == UNION {DiffsOfLength(n) : n \in 0 .. MaxDiffLines} \cup {ExampleDiff}

OtherFile == File("b.ts", << HunkHeaderNoCounts, AddedLine >>)

IndexFilesInputs ==
    {<< File("a.ts", d) >> : d \in Diffs}
        \cup {<< File("a.ts", d), OtherFile >> : d \in Diffs}
        \cup {<< OtherFile, File("a.ts", d) >> : d \in Diffs}

IndexFindings ==
    {Finding("a.ts", r[1], r[2], "potential_issue") : r \in Ranges}
        \cup {Finding("b.ts", 10, 10, "refactor_suggestion")}

NextIndex ==
    \/ /\ sessions[1].pc = "idle"
       /\ \E files \in IndexFilesInputs : RequestFullReview(1, "r1", "c1", files, "ok")
    \/ Review(1, IndexFindings, IndexMaxFindings)

SpecIndex == Init /\ [][NextIndex]_vars

(***************************************************************************)
(* SpecClassify: one review over a few requests and every list of up to    *)
(* MaxFindings comments on a.ts (in the review) and c.ts (not in it), of   *)
(* every range and type.                                                   *)
(***************************************************************************)
ClassifyFilesInputs ==
    { ExampleFiles,
      << File("a.ts", ExampleDiff), OtherFile >>,
      << File("a.ts", << MalformedHeader, ContextLine, AddedLine, ContextLine >>), OtherFile >> }

ClassifyFindings ==
    {Finding(f, r[1], r[2], type) : f \in {"a.ts", "c.ts"}, r \in Ranges, type \in IssueTypes}

NextClassify ==
    \/ /\ sessions[1].pc = "idle"
       /\ \E files \in ClassifyFilesInputs : RequestFullReview(1, "r1", "c1", files, "ok")
    \/ Review(1, ClassifyFindings, MaxFindings)

SpecClassify == Init /\ [][NextClassify]_vars

(***************************************************************************)
(* SpecRender: one review of a.ts, whose content is the three lines "x",   *)
(* "--y" and "z", with up to MaxRenderFindings comments on a.ts and on     *)
(* c.ts (not in the review); those on a.ts over a line of the file, over   *)
(* the whole of it, and beyond its end; each without suggestions, with an  *)
(* empty list of them, or with one suggestion: "w", "x", "--y", or the     *)
(* lines "x", "++w", "z".                                                  *)
(***************************************************************************)
FileWithContent(filename, diffLines, contentLines) ==
    [filename |-> filename, diff |-> join(diffLines),
     fileContent |-> join(contentLines)]

Suggestion(filename, startLine, endLine, type, suggestions) ==
    [origin |-> "stream", filename |-> filename, startLine |-> startLine,
     endLine |-> endLine, type |-> type, suggestions |-> suggestions]

ExampleContent == << <<"x">>, <<"-", "-", "y">>, <<"z">> >>

SuggestedCodes ==
    { <<"w">>, <<"x">>, <<"-", "-", "y">>,
      join(<< <<"x">>, <<"+", "+", "w">>, <<"z">> >>) }

RenderFiles == << FileWithContent("a.ts", ExampleDiff, ExampleContent) >>

SuggestionLists == {<<>>} \cup {<< code >> : code \in SuggestedCodes}

RenderFindings ==
    {Finding("a.ts", r[1], r[2], "potential_issue") : r \in Ranges}
        \cup {Suggestion("a.ts", r[1], r[2], "refactor_suggestion", list) :
                 r \in Ranges, list \in SuggestionLists}
        \cup {Finding("c.ts", 2, 2, "potential_issue")}
        \cup {Suggestion("c.ts", 2, 2, "refactor_suggestion", list) :
                 list \in SuggestionLists}

NextRender ==
    \/ /\ sessions[1].pc = "idle"
       /\ RequestFullReview(1, "r1", "c1", RenderFiles, "ok")
    \/ Review(1, RenderFindings, MaxRenderFindings)

SpecRender == Init /\ [][NextRender]_vars

(***************************************************************************)
(* SpecRepeat: two requests of one client, the second carrying the         *)
(* reviewId of the first or another, at any moment of the first review;    *)
(* every provider call resolves and the stream yields up to one comment.   *)
(***************************************************************************)
NextRepeat ==
    \/ \E s \in Slots, r \in ReviewIds :
            FreeSlot(s) /\ RequestFullReview(s, r, "c1", ExampleFiles, "ok")
    \/ \E s \in Slots : Review(s, {StreamComment(1)}, BusMaxStream)

SpecRepeat == Init /\ [][NextRepeat]_vars

(***************************************************************************)
(* SpecDeliver: one review of client c1 whose provider calls resolve, stop *)
(* requests, and clients subscribing and unsubscribing (under c1, c2 and   *)
(* '*') at any moment before, during and after the review.                 *)
(***************************************************************************)
NextDeliver ==
    \/ RequestFullReview(1, "r1", "c1", ExampleFiles, "ok")
    \/ \E r \in ReviewIds : TotalStops < MaxStops /\ StopReview(r)
    \/ \E c \in ClientIds : Subscribe(c)
    \/ \E c \in ClientIds : Unsubscribe(c)
    \/ Review(1, {StreamComment(1)}, BusMaxStream)

SpecDeliver == Init /\ [][NextDeliver]_vars

(***************************************************************************)
(* retryWithBackoff, one action per run: the call up to its first await,   *)
(* and each resumption after the awaited operation or delay has settled.   *)
(***************************************************************************)
SetLast(seq, x) == [seq EXCEPT ![Len(seq)] = x]

\* retryWithBackoff(operation, options): the options are read and the first
\* pass of the loop invokes the operation.
retryWithBackoff(options) ==
    /\ retry.pc = "idle"
    /\ retry' = [retry EXCEPT
            !.pc = "operation",
            !.options = options,
            !.attempt = 0,
            !.invocations = << Pending >>]
    /\ UNCHANGED <<orchestration, limiter, cache, monitor>>

\* return await operation(), the operation resolving.
OperationResolves ==
    /\ retry.pc = "operation"
    /\ retry' = [retry EXCEPT
            !.pc = "done",
            !.invocations = SetLast(@, Resolved),
            !.settled = "returned",
            !.value = Len(retry.invocations)]
    /\ UNCHANGED <<orchestration, limiter, cache, monitor>>

\* The operation rejecting: the catch block.
OperationRejects(error) ==
    /\ retry.pc = "operation"
    /\ error.n = Len(retry.invocations)
    /\ retry' =
          IF LastAttempt(retry.attempt, maxRetriesOf(retry.options))
          THEN \* break; throw lastError
               [retry EXCEPT !.pc = "done", !.lastError = error,
                             !.invocations = SetLast(@, Rejected(error)),
                             !.settled = "thrown", !.thrown = error]
          ELSE IF ~retryCondition(retry.options, error)
          THEN \* throw error
               [retry EXCEPT !.pc = "done", !.lastError = error,
                             !.invocations = SetLast(@, Rejected(error)),
                             !.settled = "thrown", !.thrown = error]
          ELSE \* await new Promise(resolve => setTimeout(resolve, delay))
               [retry EXCEPT !.pc = "delay", !.lastError = error,
                             !.invocations = SetLast(@, Rejected(error)),
                             !.delays = Append(@, BackoffDelay(retry.attempt))]
    /\ UNCHANGED <<orchestration, limiter, cache, monitor>>

\* The delay has elapsed: attempt++ and the next pass invokes the operation.
DelayElapses ==
    /\ retry.pc = "delay"
    /\ retry' = [retry EXCEPT
            !.pc = "operation",
            !.attempt = @ + 1,
            !.invocations = Append(@, Pending)]
    /\ UNCHANGED <<orchestration, limiter, cache, monitor>>

(***************************************************************************)
(* SpecRetry: one call of retryWithBackoff, with maxRetries from 0 to      *)
(* MaxRetriesOption or left to its default, with or without a              *)
(* retryCondition, over an operation that at each invocation resolves or   *)
(* throws an error of either class.                                        *)
(***************************************************************************)
RetryOptions ==
    {m @@ c : m \in {EmptyMap} \cup {"maxRetries" :> n : n \in 0 .. MaxRetriesOption},
              c \in {EmptyMap} \cup {"retryCondition" :> f : f \in {"isRetryableAIError", "never"}}}

Errors(n) ==
    {RetryableError("failure", flag, n) : flag \in BOOLEAN}
    \cup {Error(message, n) : message \in {"network", "failure"}}

NextRetry ==
    \/ \E options \in RetryOptions : retryWithBackoff(options)
    \/ OperationResolves
    \/ \E error \in Errors(Len(retry.invocations)) : OperationRejects(error)
    \/ DelayElapses

SpecRetry == Init /\ [][NextRetry]_vars

(***************************************************************************)
(* RateLimiter, one action per call.                                       *)
(***************************************************************************)
\* new RateLimiter(config)
NewRateLimiter(config) ==
    /\ ~limiter.constructed
    /\ limiter' = [limiter EXCEPT !.constructed = TRUE, !.config = config]
    /\ UNCHANGED <<orchestration, retry, cache, monitor>>

\* check(clientId)
check(clientId) ==
    /\ limiter.constructed
    /\ limiter' = [limiter EXCEPT
            !.clients = checkClients(@, limiter.config, clientId, limiter.now),
            !.calls = Append(@,
                [op |-> "check", clientId |-> clientId, now |-> limiter.now,
                 result |-> checkResult(limiter.clients, limiter.config, clientId,
                                        limiter.now)])]
    /\ UNCHANGED <<orchestration, retry, cache, monitor>>

\* reset(clientId)
reset(clientId) ==
    /\ limiter.constructed
    /\ limiter' = [limiter EXCEPT
            !.clients = MapDelete(@, clientId),
            !.calls = Append(@,
                [op |-> "reset", clientId |-> clientId, now |-> limiter.now])]
    /\ UNCHANGED <<orchestration, retry, cache, monitor>>

\* The callback of setInterval(() => this.cleanup(), 60000).
cleanup ==
    /\ limiter.constructed
    /\ limiter' = [limiter EXCEPT !.clients = cleanupClients(@, limiter.now)]
    /\ UNCHANGED <<orchestration, retry, cache, monitor>>

\* Time passes: Date.now() returns `ms` more.
ClockAdvances(ms) ==
    /\ limiter' = [limiter EXCEPT !.now = @ + ms]
    /\ UNCHANGED <<orchestration, retry, cache, monitor>>

(***************************************************************************)
(* SpecLimiter: a limiter of up to MaxRequestsConfig requests per window   *)
(* of 1000 or 1500 ms, checked and reset for two clients, up to MaxCalls   *)
(* calls (MaxResets of them resets), while the clock advances in steps of  *)
(* 500 ms up to MaxNow.  (The interval of cleanup, 60000 ms, is not kept: the callback  *)
(* runs at any moment.)                                                    *)
(***************************************************************************)
RateLimitConfigs ==
    {[maxRequests |-> m, windowMs |-> w] : m \in 1 .. MaxRequestsConfig, w \in {1000, 1500}}

LimiterClients == {"c1", "c2"}

Resets == Cardinality({i \in DOMAIN limiter.calls : limiter.calls[i].op = "reset"})

NextLimiter ==
    \/ \E config \in RateLimitConfigs : NewRateLimiter(config)
    \/ \E c \in LimiterClients : Len(limiter.calls) < MaxCalls /\ check(c)
    \/ \E c \in LimiterClients :
            Len(limiter.calls) < MaxCalls /\ Resets < MaxResets /\ reset(c)
    \/ cleanup
    \/ \E ms \in {500} :
            limiter.constructed /\ limiter.now + ms <= MaxNow /\ ClockAdvances(ms)

SpecLimiter == Init /\ [][NextLimiter]_vars

(***************************************************************************)
(* LRUCache, one action per call.                                          *)
(***************************************************************************)
\* new LRUCache(maxSize, defaultTTL)
NewLRUCache(maxSize, defaultTTL) ==
    /\ ~cache.constructed
    /\ cache' = [cache EXCEPT !.constructed = TRUE, !.maxSize = maxSize,
                              !.defaultTTL = defaultTTL]
    /\ UNCHANGED <<orchestration, retry, limiter, monitor>>

\* get(key)
get(key) ==
    LET c == Operation(cache, "get", key)
        i == IndexOf(cache.entries, key) IN
    /\ cache.constructed
    /\ cache' =
          IF i = 0
          THEN [c EXCEPT !.stats.misses = @ + 1]
          ELSE IF IsExpired(cache.entries[i], cache.now)
          THEN [c EXCEPT !.entries = Without(@, key),
                         !.stats.size = @ - 1,
                         !.stats.misses = @ + 1]
          ELSE Used([c EXCEPT
                        !.entries = Append(Without(@, key),
                            [cache.entries[i] EXCEPT !.timestamp = cache.now,
                                                     !.hits = @ + 1]),
                        !.stats.hits = @ + 1],
                    key)
    /\ UNCHANGED <<orchestration, retry, limiter, monitor>>

\* set(key, value, ttl)
set(key, value, ttl) ==
    LET c == Operation(cache, "set", key)
        i == IndexOf(cache.entries, key) IN
    /\ cache.constructed
    /\ cache' =
          IF i # 0
          THEN Used([c EXCEPT
                        !.entries = Append(Without(@, key),
                            [cache.entries[i] EXCEPT
                                !.value = value,
                                !.timestamp = cache.now,
                                !.ttl = ttlOrDefault(ttl, cache.defaultTTL)])],
                    key)
          ELSE LET room == IF Len(c.entries) >= c.maxSize THEN evictLRU(c) ELSE c
               IN Used([room EXCEPT
                            !.entries = Append(@,
                                [key |-> key, value |-> value, timestamp |-> cache.now,
                                 ttl |-> ttlOrDefault(ttl, cache.defaultTTL),
                                 hits |-> 0]),
                            !.stats.size = @ + 1],
                       key)
    /\ UNCHANGED <<orchestration, retry, limiter, monitor>>

\* delete(key)
delete(key) ==
    LET c == Operation(cache, "delete", key) IN
    /\ cache.constructed
    /\ cache' =
          IF IndexOf(cache.entries, key) # 0
          THEN [c EXCEPT !.entries = Without(@, key), !.stats.size = @ - 1]
          ELSE c
    /\ UNCHANGED <<orchestration, retry, limiter, monitor>>

\* clear()
clear ==
    /\ cache.constructed
    /\ cache' = [Operation(cache, "clear", "") EXCEPT !.entries = <<>>, !.stats.size = 0]
    /\ UNCHANGED <<orchestration, retry, limiter, monitor>>

\* has(key)
has(key) ==
    LET c == Operation(cache, "has", key)
        i == IndexOf(cache.entries, key) IN
    /\ cache.constructed
    /\ cache' =
          IF i # 0 /\ IsExpired(cache.entries[i], cache.now)
          THEN [c EXCEPT !.entries = Without(@, key), !.stats.size = @ - 1]
          ELSE c
    /\ UNCHANGED <<orchestration, retry, limiter, monitor>>

\* The callback of setInterval(() => this.cleanup(), 300000): the cleanup
\* of the cache.
cleanupCache ==
    LET kept == SelectSeq(cache.entries, LAMBDA e : ~IsExpired(e, cache.now)) IN
    /\ cache.constructed
    /\ cache' = [Operation(cache, "cleanup", "") EXCEPT
            !.entries = kept,
            !.stats.size = @ - (Len(cache.entries) - Len(kept))]
    /\ UNCHANGED <<orchestration, retry, limiter, monitor>>

\* Time passes: Date.now() returns `ms` more.
CacheClockAdvances(ms) ==
    /\ cache' = [cache EXCEPT !.now = @ + ms]
    /\ UNCHANGED <<orchestration, retry, limiter, monitor>>

(***************************************************************************)
(* SpecCache: a cache of up to MaxSize entries with a default TTL of 1000  *)
(* ms, and up to MaxOps operations on the keys "", "a" and "b", with and   *)
(* without a ttl of 500 ms, while the clock advances in steps of 600 ms up *)
(* to MaxCacheNow.  (The interval of cleanup, 300000 ms, is not kept: the  *)
(* callback runs at any moment.)                                           *)
(***************************************************************************)
CacheKeys == {"", "a", "b"}

NextCache ==
    \/ \E maxSize \in 1 .. MaxSize : NewLRUCache(maxSize, 1000)
    \/ \E key \in CacheKeys : cache.ops < MaxOps /\ get(key)
    \/ \E key \in CacheKeys, ttl \in {<<>>, <<500>>} :
            cache.ops < MaxOps /\ set(key, "v", ttl)
    \/ \E key \in CacheKeys : cache.ops < MaxOps /\ delete(key)
    \/ cache.ops < MaxOps /\ clear
    \/ \E key \in CacheKeys : cache.ops < MaxOps /\ has(key)
    \/ cache.ops < MaxOps /\ cleanupCache
    \/ \E ms \in {600} :
            cache.constructed /\ cache.now + ms <= MaxCacheNow /\ CacheClockAdvances(ms)

SpecCache == Init /\ [][NextCache]_vars

(***************************************************************************)
(* The review tracking of the Monitor.                                     *)
(***************************************************************************)
startReview(reviewId, clientId, fileCount) ==
    /\ monitor' = [monitor EXCEPT
            !.activeReviews =
                MapSet(@, reviewId, ReviewMetrics(reviewId, clientId, fileCount)),
            !.reviews.total = @ + 1,
            !.reviews.inProgress = @ + 1]
    /\ UNCHANGED <<orchestration, retry, limiter, cache>>

completeReview(reviewId, commentCount) ==
    /\ monitor' =
          IF reviewId \notin DOMAIN monitor.activeReviews THEN monitor
          ELSE [monitor EXCEPT
                   !.reviews.completed = @ + 1,
                   !.reviews.inProgress = @ - 1,
                   !.activeReviews = MapDelete(@, reviewId)]
    /\ UNCHANGED <<orchestration, retry, limiter, cache>>

failReview(reviewId, error) ==
    /\ monitor' =
          IF reviewId \notin DOMAIN monitor.activeReviews THEN monitor
          ELSE [monitor EXCEPT
                   !.reviews.failed = @ + 1,
                   !.reviews.inProgress = @ - 1,
                   !.activeReviews = MapDelete(@, reviewId)]
    /\ UNCHANGED <<orchestration, retry, limiter, cache>>

(***************************************************************************)
(* SpecMonitor: a monitor and any sequence of startReview, completeReview  *)
(* and failReview over three reviewIds, tracked or not, of one or two      *)
(* files, with up to MaxStarted calls of startReview.                      *)
(***************************************************************************)
MonitorReviewIds == ReviewIds \cup {"r3"}

NextMonitor ==
    \/ \E r \in MonitorReviewIds, fileCount \in 1 .. 2 :
          monitor.reviews.total < MaxStarted /\ startReview(r, "c1", fileCount)
    \/ \E r \in MonitorReviewIds : completeReview(r, 0)
    \/ \E r \in MonitorReviewIds : failReview(r, "AI error")

SpecMonitor == Init /\ [][NextMonitor]_vars

(***************************************************************************)
(* Reading the history.                                                    *)
(***************************************************************************)
IsEmit(e) == e.k = "emit"
IsCall(e) == e.k = "call"
IsTerminal(e) == e.k = "emit" /\ e.name = "review_completed"
IsRunTerminal(e) == IsTerminal(e) /\ e.arg \in {"completed", "failed"}
IsCancelled(e) == IsTerminal(e) /\ e.arg = "cancelled"
IsSettle(e, method, how) == e.k = "settle" /\ e.name = method /\ e.arg = how

Started(s) == sessions[s].pc # "idle"
LogOf(s) == log[sessions[s].reviewId]
Indices(s, P(_)) == {i \in DOMAIN LogOf(s) : LogOf(s)[i].src = s /\ P(LogOf(s)[i])}
Terminals(r) == SelectSeq(log[r], IsTerminal)

\* The clients whose request started a review with reviewId r.
Owners(r) == {sessions[s].clientId : s \in {q \in Slots : sessions[q].reviewId = r}}

\* A stop request for r that arrived while a session of r was awaiting a
\* provider call: a call of the session precedes it, no terminal of the
\* session does.
StopWhileAwaiting(r, i) ==
    /\ IsCancelled(log[r][i]) /\ log[r][i].src = Router
    /\ \E j \in 1 .. i - 1 : IsCall(log[r][j])
    /\ \A j \in 1 .. i - 1 : ~IsRunTerminal(log[r][j])

(***************************************************************************)
(* C1: every started session eventually emits a terminal event (completed  *)
(* or failed), whatever the provider calls do, provided each of them       *)
(* settles; and a failed state update is always followed by the failed     *)
(* terminal event.                                                         *)
(***************************************************************************)
RunTerminalEmitted(s) == Started(s) /\ Indices(s, IsRunTerminal) # {}

FailedFollowedByTerminal(s) ==
    Started(s) =>
        \A i \in Indices(s, LAMBDA e : IsEmit(e) /\ e.name = "state_update" /\ e.arg = "failed") :
            \E j \in Indices(s, LAMBDA e : IsTerminal(e) /\ e.arg = "failed") : j > i

C1_EverySessionTerminates ==
    /\ Started(1) ~> RunTerminalEmitted(1)
    /\ [] FailedFollowedByTerminal(1)

\* The stream and the batch call both failed after all three summarizing
\* calls had failed, and the failed terminal event is out.
C1_Witness ==
    /\ sessions[1].pc = "done"
    /\ Indices(1, LAMBDA e : IsTerminal(e) /\ e.arg = "failed") # {}
    /\ Indices(1, LAMBDA e : IsSettle(e, "generateReviewTitle", "rejected")) # {}
    /\ Indices(1, LAMBDA e : IsSettle(e, "generatePrObjective", "rejected")) # {}
    /\ Indices(1, LAMBDA e : IsSettle(e, "generateWalkThrough", "rejected")) # {}

(***************************************************************************)
(* C2: a session whose reviewId receives no stop request emits exactly one *)
(* terminal event for it over its run, completed or failed: none while it  *)
(* runs, one once it is done.                                              *)
(***************************************************************************)
C2_ExactlyOneTerminal ==
    (Started(1) /\ RouterEvents(sessions[1].reviewId) = <<>>) =>
        LET ts == Terminals(sessions[1].reviewId) IN
        /\ Len(ts) <= 1
        /\ \A i \in DOMAIN ts : ts[i].arg \in {"completed", "failed"}
        /\ (sessions[1].pc = "done") <=> (Len(ts) = 1)

\* A run that ended although its summary call was rejected.
C2_Witness ==
    /\ sessions[1].pc = "done"
    /\ RouterEvents(sessions[1].reviewId) = <<>>
    /\ Len(Terminals(sessions[1].reviewId)) = 1
    /\ Indices(1, LAMBDA e : IsSettle(e, "generateReviewSummary", "rejected")) # {}

(***************************************************************************)
(* C3: a stop request that arrives while a session awaits a provider call  *)
(* yields exactly one cancelled terminal event for the reviewId, and no    *)
(* completed or failed terminal event follows it.                          *)
(***************************************************************************)
C3_StopIsFinal ==
    \A r \in ReviewIds : \A i \in DOMAIN log[r] :
        StopWhileAwaiting(r, i) =>
            /\ Cardinality({j \in DOMAIN log[r] : IsCancelled(log[r][j])}) = 1
            /\ \A j \in DOMAIN log[r] : j > i => ~IsRunTerminal(log[r][j])

(***************************************************************************)
(* C4: after a terminal event of any status for the reviewId of a started  *)
(* review, no further event of any kind is emitted for that reviewId.      *)
(***************************************************************************)
C4_NothingAfterTerminal ==
    \A r \in ReviewIds : \A i, j \in DOMAIN log[r] :
        (/\ i < j
         /\ IsTerminal(log[r][i])
         /\ \E k \in 1 .. i - 1 : log[r][k].src # Router) => ~IsEmit(log[r][j])

(***************************************************************************)
(* C5: after a stop request for a running review, the call in flight is    *)
(* left to settle but the session makes no further provider call.          *)
(***************************************************************************)
C5_NoCallAfterStop ==
    \A r \in ReviewIds : \A i, j \in DOMAIN log[r] :
        (i < j /\ StopWhileAwaiting(r, i)) => ~IsCall(log[r][j])

(***************************************************************************)
(* C6: the cancelled terminal event that stopReview emits for a started    *)
(* review is delivered to every client subscribed when it is emitted, the  *)
(* owner of the stopped review among them.                                 *)
(***************************************************************************)
C6_StopIsBroadcast ==
    \A n \in DOMAIN bus :
        (/\ IsCancelled(bus[n].ev) /\ bus[n].ev.src = Router
         /\ Owners(bus[n].reviewId) # {}) =>
            /\ bus[n].to = bus[n].subscribed
            /\ Owners(bus[n].reviewId) \cap bus[n].subscribed \subseteq bus[n].to

(***************************************************************************)
(* C7: a subscriber registered with clientId c is delivered only events    *)
(* whose clientId equals c, and so no event of a review that another       *)
(* client owns.                                                            *)
(***************************************************************************)
C7_OnlyOwnEvents ==
    \A n \in DOMAIN bus : \A c \in bus[n].to :
        /\ bus[n].ev.clientId = c
        /\ Owners(bus[n].reviewId) \subseteq {c}

(***************************************************************************)
(* C8: when the stream yields k comments and then fails and the batch call *)
(* returns n comments, the list handed to classification and to the        *)
(* summary is exactly the n batch comments.                                *)
(***************************************************************************)
BatchSettled(s) == Indices(s, LAMBDA e : IsSettle(e, "performCodeReview", "resolved"))

\* The comments the batch call returned: those sent after it settled.
BatchSent(s) ==
    Indices(s, LAMBDA e : IsEmit(e) /\ e.name = "review_comment" /\ e.items[1].origin = "batch")

C8_BatchReplacesStream ==
    (Started(1) /\ BatchSettled(1) # {}) =>
        \A i \in Indices(1, LAMBDA e :
                    \/ IsEmit(e) /\ e.name = "additional_details"
                    \/ IsCall(e) /\ e.name = "generateReviewSummary") :
            LogOf(1)[i].items = SortComments(BatchOutput(Cardinality(BatchSent(1))))

(***************************************************************************)
(* C9: the batch call is made at most once per session, and only after the *)
(* stream has failed; a stream that ends without failure is never followed *)
(* by it.                                                                  *)
(***************************************************************************)
BatchCalls(s) == Indices(s, LAMBDA e : IsCall(e) /\ e.name = "performCodeReview")

C9_BatchOnlyAsFallback ==
    Started(1) =>
        /\ Cardinality(BatchCalls(1)) <= 1
        /\ \A i \in BatchCalls(1) :
              \E j \in Indices(1, LAMBDA e : IsSettle(e, "streamCodeReview", "rejected")) : j < i
        /\ Indices(1, LAMBDA e : IsSettle(e, "streamCodeReview", "end")) # {}
              => BatchCalls(1) = {}

\* The stream yielded a comment, then failed, and the batch call was made.
C9_Witness ==
    /\ Started(1)
    /\ Cardinality(BatchCalls(1)) = 1
    /\ Indices(1, LAMBDA e : IsSettle(e, "streamCodeReview", "yield")) # {}

(***************************************************************************)
(* C10: whichever of the title, objective and walkthrough calls fail, all  *)
(* three are made, in that order; the result event of each is emitted      *)
(* exactly when it resolved; and the session goes on to the reviewing      *)
(* stage without a failed terminal event.                                  *)
(***************************************************************************)
Calls(s) ==
    LET cs == SelectSeq(LogOf(s), LAMBDA e : e.src = s /\ IsCall(e))
    IN [i \in DOMAIN cs |-> cs[i].name]

IsPrefix(a, b) == Len(a) <= Len(b) /\ SubSeq(b, 1, Len(a)) = a

ResultIffResolved(s, method, type) ==
    LET sent == Indices(s, LAMBDA e : IsEmit(e) /\ e.name = type)
        resolved == Indices(s, LAMBDA e : IsSettle(e, method, "resolved"))
        rejected == Indices(s, LAMBDA e : IsSettle(e, method, "rejected"))
    IN /\ Cardinality(sent) = Cardinality(resolved)
       /\ Cardinality(resolved) + Cardinality(rejected) <= 1
       /\ \A i \in sent : \E j \in resolved : j < i

SummarizingOver(s) == sessions[s].pc \notin {"idle", "title", "objective", "walkthrough"}

C10_SummarizingIsBestEffort ==
    Started(1) =>
        /\ ResultIffResolved(1, "generateReviewTitle", "pr_title")
        /\ ResultIffResolved(1, "generatePrObjective", "pr_objective")
        /\ ResultIffResolved(1, "generateWalkThrough", "walk_through")
        /\ \/ IsPrefix(Calls(1), <<"generateReviewTitle", "generatePrObjective",
                                   "generateWalkThrough", "streamCodeReview">>)
           \/ IsPrefix(<<"generateReviewTitle", "generatePrObjective",
                         "generateWalkThrough", "streamCodeReview">>, Calls(1))
        /\ Len(Calls(1)) = CASE sessions[1].pc = "title" -> 1
                             [] sessions[1].pc = "objective" -> 2
                             [] sessions[1].pc = "walkthrough" -> 3
                             [] OTHER -> Len(Calls(1))
        /\ SummarizingOver(1) =>
              /\ Len(Calls(1)) >= 4
              /\ \E i \in Indices(1, LAMBDA e : IsEmit(e) /\ e.name = "review_status"
                                                  /\ e.arg = "reviewing") :
                    \A j \in Indices(1, IsRunTerminal) : i < j

\* All three summarizing calls were rejected and the session is reviewing.
C10_Witness ==
    /\ sessions[1].pc = "stream"
    /\ Indices(1, LAMBDA e : IsSettle(e, "generateReviewTitle", "rejected")) # {}
    /\ Indices(1, LAMBDA e : IsSettle(e, "generatePrObjective", "rejected")) # {}
    /\ Indices(1, LAMBDA e : IsSettle(e, "generateWalkThrough", "rejected")) # {}
    /\ Indices(1, LAMBDA e : IsEmit(e) /\ e.name \in {"pr_title", "pr_objective", "walk_through"}) = {}

(***************************************************************************)
(* C11: when the stream fails and the batch call fails too, the session    *)
(* emits, in this order and as its last three events, the error-class      *)
(* event (error, or rate_limit_exceeded when the model reported being      *)
(* overloaded), the failed state update and the failed terminal event; it  *)
(* never emits a completed terminal event.                                 *)
(***************************************************************************)
IsRequest(e) == e.k = "request"

\* The events the session of slot s has emitted, in order.
EmittedBy(s) == SelectSeq(LogOf(s), LAMBDA e : e.src = s /\ IsEmit(e))

BothFailed(s) ==
    /\ Started(s)
    /\ Indices(s, LAMBDA e : IsSettle(e, "streamCodeReview", "rejected")) # {}
    /\ Indices(s, LAMBDA e : IsSettle(e, "performCodeReview", "rejected")) # {}

C11_DoubleFailureEvents ==
    BothFailed(1) =>
        LET evs == EmittedBy(1)
            n == Len(evs) IN
        /\ n >= 3
        /\ evs[n - 2].name \in {"error", "rate_limit_exceeded"}
        /\ evs[n - 1].name = "state_update" /\ evs[n - 1].arg = "failed"
        /\ IsTerminal(evs[n]) /\ evs[n].arg = "failed"
        /\ \A i \in 1 .. n - 3 :
              /\ evs[i].name \notin {"error", "rate_limit_exceeded"}
              /\ ~IsTerminal(evs[i])
              /\ ~(evs[i].name = "state_update" /\ evs[i].arg = "failed")

\* The stream yielded a comment and failed, then the batch call failed.
C11_Witness ==
    /\ BothFailed(1)
    /\ Indices(1, LAMBDA e : IsSettle(e, "streamCodeReview", "yield")) # {}
    /\ sessions[1].pc = "done"

(***************************************************************************)
(* C12 as claimed: when the summary call fails on a non-empty list of      *)
(* comments, the terminal event of the session has status failed, not      *)
(* completed.                                                              *)
(***************************************************************************)
SummaryFailed(s) ==
    /\ Started(s)
    /\ Indices(s, LAMBDA e : IsSettle(e, "generateReviewSummary", "rejected")) # {}

C12_SummaryFailureFails ==
    (SummaryFailed(1) /\ sessions[1].allComments # <<>>) =>
        \A i \in Indices(1, IsRunTerminal) : LogOf(1)[i].arg = "failed"

(***************************************************************************)
(* C12 as amended: when the summary call fails (which takes a non-empty    *)
(* list of comments), the failure is swallowed: the session emits no       *)
(* summary event, no error-class event and no failed state update, and its *)
(* terminal event, emitted in the same run, has status completed.          *)
(***************************************************************************)
C12_SummaryFailureIsSwallowed ==
    SummaryFailed(1) =>
        /\ sessions[1].allComments # <<>>
        /\ sessions[1].pc = "done"
        /\ Indices(1, LAMBDA e : IsEmit(e) /\ e.name \in
                {"short_summary", "summary_comment", "error", "rate_limit_exceeded"}) = {}
        /\ Indices(1, LAMBDA e : IsEmit(e) /\ e.name = "state_update" /\ e.arg = "failed") = {}
        /\ Cardinality(Indices(1, IsRunTerminal)) = 1
        /\ \A i \in Indices(1, IsRunTerminal) : LogOf(1)[i].arg = "completed"

\* The summary of two comments was asked for and the call rejected.
C12_Witness ==
    /\ SummaryFailed(1)
    /\ Len(sessions[1].allComments) = 2
    /\ Indices(1, LAMBDA e : IsTerminal(e) /\ e.arg = "completed") # {}

(***************************************************************************)
(* C13: when the accumulated list of comments is empty, the summary call   *)
(* sends no request to the model, and the summary events carry the canned  *)
(* payload (short summary "No issues found.").                             *)
(***************************************************************************)
SummaryCalls(s) == Indices(s, LAMBDA e : IsCall(e) /\ e.name = "generateReviewSummary")

C13_NoRequestForNoFindings ==
    Started(1) =>
        \A i \in SummaryCalls(1) :
            LogOf(1)[i].items = <<>> =>
                /\ Indices(1, LAMBDA e : IsRequest(e) /\ e.name = "generateReviewSummary") = {}
                /\ Indices(1, LAMBDA e : IsSettle(e, "generateReviewSummary", "rejected")) = {}
                /\ \A j \in Indices(1, LAMBDA e : IsEmit(e) /\ e.name = "short_summary") :
                      LogOf(1)[j].arg = "No issues found."
                /\ \A j \in Indices(1, LAMBDA e : IsEmit(e) /\ e.name = "summary_comment") :
                      LogOf(1)[j].arg = "Great work! No issues were found in the code."
                /\ sessions[1].pc = "done" =>
                      /\ Cardinality(Indices(1, LAMBDA e : IsEmit(e) /\ e.name = "short_summary")) = 1
                      /\ Cardinality(Indices(1, LAMBDA e : IsEmit(e) /\ e.name = "summary_comment")) = 1

\* A review whose stream failed and whose batch call returned nothing has
\* sent its canned summary.
C13_Witness ==
    /\ sessions[1].pc = "done"
    /\ sessions[1].allComments = <<>>
    /\ Indices(1, LAMBDA e : IsSettle(e, "performCodeReview", "resolved")) # {}
    /\ Indices(1, LAMBDA e : IsEmit(e) /\ e.name = "short_summary"
                                        /\ e.arg = "No issues found.") # {}

(***************************************************************************)
(* Reading the categorized payload of a session.                           *)
(***************************************************************************)
DetailsOf(s) == Indices(s, LAMBDA e : IsEmit(e) /\ e.name = "additional_details")

Categorized(s) == Started(s) /\ DetailsOf(s) # {}

\* The payload of the additional_details event of the session.
PayloadOf(s) == LogOf(s)[CHOOSE i \in DetailsOf(s) : TRUE].arg

\* How often comment c occurs in a list, and in the lists of a record.
Occurrences(c, list) == Cardinality({i \in DOMAIN list : list[i] = c})

RECURSIVE OccurrencesIn(_, _, _)
OccurrencesIn(c, record, keys) ==
    IF keys = {} THEN 0
    ELSE LET key == CHOOSE k \in keys : TRUE IN
         Occurrences(c, record[key]) + OccurrencesIn(c, record, keys \ {key})

InAssertive(c, p) == OccurrencesIn(c, p.assertiveComments, DOMAIN p.assertiveComments)
InAdditional(c, p) == OccurrencesIn(c, p.additionalComments, DOMAIN p.additionalComments)
InOutside(c, p) == Occurrences(c, p.outsideDiffRangeComments)

\* The comments handed to categorizeAndSendDetails (as a set).
Accumulated(s) == {sessions[s].allComments[i] : i \in DOMAIN sessions[s].allComments}

\* The changed lines that the review has for the file of comment c: those of
\* the (last) file of that name among the files of the request, none when
\* the file is not in the review.
ChangedLineSet(s, c) ==
    LET files == sessions[s].files
        named == {n \in DOMAIN files : files[n].filename = c.filename}
    IN IF named = {} THEN {}
       ELSE changedLinesOf(files, CHOOSE n \in named : \A m \in named : m <= n)

Overlaps(s, c) == (c.startLine .. c.endLine) \cap ChangedLineSet(s, c) # {}

C16_IssueInDiffIsAssertive ==
    Categorized(1) =>
        \A c \in Accumulated(1) :
            (c.type \in {"potential_issue", "refactor_suggestion"} /\ Overlaps(1, c)) =>
                InAssertive(c, PayloadOf(1)) = Occurrences(c, sessions[1].allComments)

(***************************************************************************)
(* C16 as amended: a potential issue or refactor suggestion (as any        *)
(* comment that is not a nitpick) whose range contains a changed line of   *)
(* its file is placed in the additional bucket, under its filename, and in *)
(* no other bucket.                                                        *)
(***************************************************************************)
C16_IssueInDiffIsAdditional ==
    Categorized(1) =>
        LET p == PayloadOf(1) IN
        \A c \in Accumulated(1) :
            (c.type # "nitpick" /\ Overlaps(1, c)) =>
                /\ c.filename \in DOMAIN p.additionalComments
                /\ Occurrences(c, p.additionalComments[c.filename])
                      = Occurrences(c, sessions[1].allComments)
                /\ InAssertive(c, p) = 0
                /\ InOutside(c, p) = 0

\* A potential issue on the added line of the example diff (Finding{2,2,bug})
\* and a refactor suggestion over the whole hunk have been categorized.
C16_Witness ==
    /\ Categorized(1)
    /\ sessions[1].files = ExampleFiles
    /\ Finding("a.ts", 2, 2, "potential_issue") \in Accumulated(1)
    /\ Finding("a.ts", 1, 3, "refactor_suggestion") \in Accumulated(1)

(***************************************************************************)
(* C17: a comment that is not a nitpick and whose range contains no        *)
(* changed line of its file, or whose file is not in the review, is placed *)
(* in the outside-diff bucket and in no other.                             *)
(***************************************************************************)
C17_NoOverlapIsOutside ==
    Categorized(1) =>
        LET p == PayloadOf(1) IN
        \A c \in Accumulated(1) :
            (c.type # "nitpick" /\ ~Overlaps(1, c)) =>
                /\ InOutside(c, p) = Occurrences(c, sessions[1].allComments)
                /\ InAssertive(c, p) = 0
                /\ InAdditional(c, p) = 0

\* A potential issue far from the hunk (Finding{10,10,bug}) and another on a
\* file that is not in the review have been categorized.
C17_Witness ==
    /\ Categorized(1)
    /\ sessions[1].files = ExampleFiles
    /\ Finding("a.ts", 10, 10, "potential_issue") \in Accumulated(1)
    /\ Finding("c.ts", 2, 2, "potential_issue") \in Accumulated(1)

(***************************************************************************)
(* The cursor of the scan, told from the diff alone: at line i it is the   *)
(* new-file start of the last hunk header above the line (0 when that      *)
(* header does not parse or there is none) plus the added and context      *)
(* lines between the two.                                                  *)
(***************************************************************************)
IsHeader(line) == startsWith(line, <<"@", "@">>)
IsAdded(line) == ~IsHeader(line) /\ startsWith(line, <<"+">>)
IsContext(line) == ~IsHeader(line) /\ startsWith(line, <<" ">>)

CursorAt(diffLines, i) ==
    LET above == {j \in 1 .. i - 1 : IsHeader(diffLines[j])}
        h == IF above = {} THEN 0 ELSE CHOOSE j \in above : \A k \in above : k <= j
        base == IF h = 0 \/ HunkHeaderMatch(diffLines[IF h = 0 THEN 1 ELSE h]) = <<>>
                THEN 0
                ELSE parseInt(HunkHeaderMatch(diffLines[h]))
    IN base + Cardinality({j \in h + 1 .. i - 1 :
                              IsAdded(diffLines[j]) \/ IsContext(diffLines[j])})

AddedLineNumbers(diffLines) ==
    {CursorAt(diffLines, i) : i \in {j \in DOMAIN diffLines : IsAdded(diffLines[j])}}

\* Line i lies inside a hunk: a header that parses is the last one above it.
InHunk(diffLines, i) ==
    \E h \in 1 .. i - 1 :
        /\ IsHeader(diffLines[h]) /\ HunkHeaderMatch(diffLines[h]) # <<>>
        /\ \A j \in h + 1 .. i - 1 : ~IsHeader(diffLines[j])

HunkLineNumbers(diffLines) ==
    {CursorAt(diffLines, i) :
        i \in {j \in DOMAIN diffLines :
                  /\ InHunk(diffLines, j)
                  /\ IsAdded(diffLines[j]) \/ IsContext(diffLines[j])}}

(***************************************************************************)
(* C18 as claimed: the changed lines of a file are the new-file numbers of *)
(* all the lines inside its hunks, context lines as well as added lines;   *)
(* for the example diff they are {1, 2, 3}.                                *)
(***************************************************************************)
C18_ContextLinesAreChanged ==
    Started(1) =>
        \A n \in DOMAIN sessions[1].files :
            LET file == sessions[1].files[n] IN
            /\ HunkLineNumbers(split(file.diff)) \subseteq changedLinesOf(sessions[1].files, n)
            /\ file.diff = join(ExampleDiff) => changedLinesOf(sessions[1].files, n) = {1, 2, 3}

(***************************************************************************)
(* C18 as amended: the changed lines of a file are the new-file numbers of *)
(* its added lines alone (context lines advance the line cursor and are    *)
(* not recorded; the cursor starts at the new-file start of the hunk       *)
(* header, at 0 under a header that does not parse); for the example diff  *)
(* they are {2}.                                                           *)
(***************************************************************************)
C18_AddedLinesAreChanged ==
    Started(1) =>
        \A n \in DOMAIN sessions[1].files :
            LET file == sessions[1].files[n] IN
            /\ changedLinesOf(sessions[1].files, n) = AddedLineNumbers(split(file.diff))
            /\ file.diff = join(ExampleDiff) => changedLinesOf(sessions[1].files, n) = {2}
            /\ file = OtherFile => changedLinesOf(sessions[1].files, n) = {10}

\* The review of the example diff next to b.ts has sent its payload.
C18_Witness ==
    /\ Categorized(1)
    /\ sessions[1].files = << File("a.ts", ExampleDiff), OtherFile >>

(***************************************************************************)
(* C19: a malformed hunk header in the diff of one file leaves the changed *)
(* lines of every other file of the review as they are with the header     *)
(* well-formed; no error event is emitted, the payload is emitted, and the *)
(* session ends with the completed terminal event.                         *)
(***************************************************************************)
HasMalformedHeader(file) ==
    LET lines == split(file.diff) IN
    \E i \in DOMAIN lines : IsHeader(lines[i]) /\ HunkHeaderMatch(lines[i]) = <<>>

\* The file with every malformed hunk header replaced by a well-formed one.
Repaired(file) ==
    LET lines == split(file.diff) IN
    [file EXCEPT !.diff =
        join([i \in DOMAIN lines |->
                IF IsHeader(lines[i]) /\ HunkHeaderMatch(lines[i]) = <<>>
                THEN HunkHeader ELSE lines[i]])]

C19_MalformedHeaderIsIsolated ==
    Started(1) =>
        LET files == sessions[1].files IN
        \A n \in DOMAIN files :
            HasMalformedHeader(files[n]) =>
                /\ LET asItIs == changedLinesMap(files)
                       repaired == changedLinesMap([files EXCEPT ![n] = Repaired(@)]) IN
                   \A m \in DOMAIN files \ {n} :
                       asItIs[files[m].filename] = repaired[files[m].filename]
                /\ Indices(1, LAMBDA e : IsEmit(e) /\ e.name \in {"error", "rate_limit_exceeded"}) = {}
                /\ sessions[1].pc \in {"summary", "done"} => Cardinality(DetailsOf(1)) = 1
                /\ sessions[1].pc = "done" =>
                      /\ Cardinality(Indices(1, IsRunTerminal)) = 1
                      /\ \A i \in Indices(1, IsRunTerminal) : LogOf(1)[i].arg = "completed"

\* A review of a.ts, whose header is malformed and whose added line is
\* thereby numbered 0 instead of 1, and of b.ts has completed.
C19_Witness ==
    /\ sessions[1].pc = "done"
    /\ sessions[1].files = << File("a.ts", << MalformedHeader, AddedLine >>), OtherFile >>
    /\ changedLinesMap(sessions[1].files)["a.ts"] = {0}
    /\ changedLinesMap(sessions[1].files)["b.ts"] = {10}
    /\ Indices(1, LAMBDA e : IsTerminal(e) /\ e.arg = "completed") # {}

(***************************************************************************)
(* C21: an accepted request is answered without waiting for the review:    *)
(* the session's history holds exactly one response, produced right after  *)
(* the first provider call was made (the session is suspended on it), with *)
(* no settlement of a provider call and no terminal event of the session   *)
(* before it, however and whenever the provider calls settle afterwards.   *)
(***************************************************************************)
IsResponse(e) == e.k = "response"

C21_ResponseWithoutWaiting ==
    Started(1) =>
        LET responses == Indices(1, IsResponse) IN
        /\ Cardinality(responses) = 1
        /\ \A i \in responses :
              /\ i > 1
              /\ IsCall(LogOf(1)[i - 1])
              /\ LogOf(1)[i - 1].src = 1
              /\ LogOf(1)[i - 1].name = "generateReviewTitle"
              /\ Indices(1, IsCall) \cap (1 .. i) = {i - 1}
              /\ \A j \in Indices(1, LAMBDA e : e.k = "settle" \/ IsTerminal(e)) : j > i

\* The review ran to its end after the response, its first call rejected.
C21_Witness ==
    /\ sessions[1].pc = "done"
    /\ Indices(1, IsResponse) # {}
    /\ Indices(1, LAMBDA e : IsSettle(e, "generateReviewTitle", "rejected")) # {}
    /\ Indices(1, IsRunTerminal) # {}

(***************************************************************************)
(* C22: at any time at most one session of a reviewId is running: two      *)
(* sessions that have started and not yet emitted their terminal event     *)
(* never carry the same reviewId.                                          *)
(***************************************************************************)
Running(s) == Started(s) /\ Indices(s, IsRunTerminal) = {}

C22_OneRunningSessionPerReviewId ==
    \A s, q \in Slots :
        (s # q /\ Running(s) /\ Running(q)) => sessions[s].reviewId # sessions[q].reviewId

(***************************************************************************)
(* C23: in every step, the events emitted are delivered, in the order of   *)
(* their emission, to exactly the subscribers registered at the emission   *)
(* whose clientId is the event's; a step that registers or removes a       *)
(* subscriber delivers nothing (no event emitted before is replayed), and  *)
(* so no event reaches a client that was not subscribed when it was        *)
(* emitted.                                                                *)
(***************************************************************************)
\* What the step appended to the history of reviewId r.
Appended(r) == SubSeq(log'[r], Len(log[r]) + 1, Len(log'[r]))

StepDelivers ==
    /\ \E r \in ReviewIds :
          LET emitted == SelectSeq(Appended(r), IsEmit) IN
          /\ \A q \in ReviewIds \ {r} : Appended(q) = <<>>
          /\ Len(bus') = Len(emitted)
          /\ \A n \in DOMAIN bus' :
                /\ bus'[n].ev = emitted[n]
                /\ bus'[n].reviewId = r
    /\ \A n \in DOMAIN bus' :
          /\ bus'[n].subscribed = listeners
          /\ bus'[n].to = {c \in listeners : c = bus'[n].ev.clientId}
    /\ listeners' # listeners => bus' = <<>>

C23_DeliveredWhileSubscribed == [][StepDelivers]_vars

\* The terminal event of the review reaches c1 and not c2, both subscribed.
C23_Witness ==
    \E n \in DOMAIN bus :
        /\ IsRunTerminal(bus[n].ev)
        /\ bus[n].subscribed = {"c1", "c2"}
        /\ bus[n].to = {"c1"}

(***************************************************************************)
(* C24: each title, objective, walkthrough and summary call of the session *)
(* is made right after a progress (thinking_update) event of the session,  *)
(* the one announcing that call: the event is the entry before the call in *)
(* the history, and so follows the settlement of the call before it.       *)
(***************************************************************************)
Announcement(method) ==
    CASE method = "generateReviewTitle" -> "Generating a title for your review..."
      [] method = "generatePrObjective" -> "Formulating the objective..."
      [] method = "generateWalkThrough" -> "Preparing a walkthrough..."
      [] method = "generateReviewSummary" -> "Generating a summary of the review..."

AnnouncedCalls ==
    {"generateReviewTitle", "generatePrObjective", "generateWalkThrough",
     "generateReviewSummary"}

C24_ProgressBeforeEachCall ==
    Started(1) =>
        \A i \in Indices(1, LAMBDA e : IsCall(e) /\ e.name \in AnnouncedCalls) :
            /\ i > 1
            /\ IsEmit(LogOf(1)[i - 1])
            /\ LogOf(1)[i - 1].src = 1
            /\ LogOf(1)[i - 1].name = "thinking_update"
            /\ LogOf(1)[i - 1].arg = Announcement(LogOf(1)[i].name)
            /\ \A j \in Indices(1, LAMBDA e : e.k = "settle") : j # i - 1

\* All four calls were made, the summary call after a failed stream and a
\* batch of two comments.
C24_Witness ==
    /\ Started(1)
    /\ AnnouncedCalls \subseteq {LogOf(1)[i].name : i \in Indices(1, IsCall)}
    /\ Indices(1, LAMBDA e : IsSettle(e, "generateWalkThrough", "rejected")) # {}
    /\ Indices(1, LAMBDA e : IsSettle(e, "performCodeReview", "resolved")) # {}
    /\ Len(sessions[1].allComments) >= 2

(***************************************************************************)
(* C25: when no retryCondition option is given and an invocation of the    *)
(* operation fails with a RetryableError whose isRetryable flag is false,  *)
(* the operation is not invoked again and retryWithBackoff throws that     *)
(* error (so an operation that always fails so is invoked exactly once).   *)
(***************************************************************************)
NonRetryable(invocation) ==
    /\ invocation.outcome = "rejected"
    /\ invocation.error.name = "RetryableError"
    /\ ~invocation.error.isRetryable

C25_NonRetryableIsNotRetried ==
    \A i \in DOMAIN retry.invocations :
        (/\ "retryCondition" \notin DOMAIN retry.options
         /\ NonRetryable(retry.invocations[i])) =>
            /\ i = Len(retry.invocations)
            /\ retry.settled = "thrown"
            /\ retry.thrown.n = i

(***************************************************************************)
(* C26: retryWithBackoff invokes the operation at most maxRetries + 1      *)
(* times; once an invocation resolves it returns the result of that        *)
(* invocation and invokes the operation no more; and when every invocation *)
(* fails with an error the retryCondition accepts, it settles only after   *)
(* exactly maxRetries + 1 invocations, throwing the error of the last one. *)
(***************************************************************************)
AllRetryable ==
    \A i \in DOMAIN retry.invocations :
        /\ retry.invocations[i].outcome = "rejected"
        /\ retryCondition(retry.options, retry.invocations[i].error)

C26_AtMostMaxRetriesPlusOne ==
    LET n == Len(retry.invocations) IN
    /\ n <= maxRetriesOf(retry.options) + 1
    /\ \A i \in 1 .. n :
          retry.invocations[i].outcome = "resolved" =>
              /\ i = n
              /\ retry.settled = "returned"
              /\ retry.value = i
    /\ retry.settled = "returned" => retry.invocations[n].outcome = "resolved"
    /\ (retry.settled # Nil /\ AllRetryable) =>
              /\ n = maxRetriesOf(retry.options) + 1
              /\ retry.settled = "thrown"
              /\ retry.thrown = retry.invocations[n].error
              /\ retry.thrown.n = n

\* Three failures the condition accepts, with maxRetries 2: the third error
\* is thrown after two delays.
C26_Witness ==
    /\ retry.settled = "thrown"
    /\ AllRetryable
    /\ "maxRetries" \in DOMAIN retry.options
    /\ "retryCondition" \in DOMAIN retry.options
    /\ Len(retry.invocations) = 3
    /\ retry.delays = << 1000, 2000 >>

(***************************************************************************)
(* Reading the calls made of the limiter.  The window of a check of a      *)
(* client starts at the check itself when the client has no window open    *)
(* (no call before, a reset before, or the window of the check before      *)
(* over), and else where the window of the client's check before started.  *)
(***************************************************************************)
IsCheck(i) == limiter.calls[i].op = "check"

\* The call of the same client before call i, 0 when there is none.
CallBefore(i) ==
    LET earlier == {j \in 1 .. i - 1 : limiter.calls[j].clientId = limiter.calls[i].clientId}
    IN IF earlier = {} THEN 0 ELSE CHOOSE j \in earlier : \A q \in earlier : q <= j

RECURSIVE WindowStart(_)
WindowStart(i) ==
    LET before == CallBefore(i) IN
    IF before = 0 \/ ~IsCheck(before) THEN i
    ELSE LET start == WindowStart(before) IN
         IF limiter.calls[i].now >= limiter.calls[start].now + limiter.config.windowMs
         THEN i ELSE start

\* The rank of check i among the checks of its window.
RankInWindow(i) ==
    Cardinality({j \in WindowStart(i) .. i :
                    limiter.calls[j].clientId = limiter.calls[i].clientId})

\* The least number of whole seconds that covers ms milliseconds.
WholeSecondsUp(ms) == CHOOSE n \in 0 .. ms : n * 1000 >= ms /\ (n - 1) * 1000 < ms

AfterExpiry(i) ==
    /\ IsCheck(i)
    /\ CallBefore(i) # 0
    /\ IsCheck(CallBefore(i))
    /\ limiter.calls[i].now >= limiter.calls[CallBefore(i)].result.resetTime

C28_NewWindowAfterExpiry ==
    \A i \in DOMAIN limiter.calls :
        AfterExpiry(i) =>
            /\ limiter.calls[i].result.allowed
            /\ limiter.calls[i].result.remaining = limiter.config.maxRequests - 1
            /\ limiter.calls[i].result.resetTime =
                    limiter.calls[i].now + limiter.config.windowMs

\* A check at the very reset time of a window in which a check was rejected.
C28_Witness ==
    \E i \in DOMAIN limiter.calls :
        /\ AfterExpiry(i)
        /\ ~limiter.calls[CallBefore(i)].result.allowed
        /\ limiter.calls[i].now = limiter.calls[CallBefore(i)].result.resetTime
        /\ limiter.calls[i].clientId \in DOMAIN limiter.clients

(***************************************************************************)
(* C29: after any sequence of set, get, has, delete and clear operations   *)
(* on an LRUCache, the number of stored entries (getSize, the size of the  *)
(* Map) never exceeds maxSize.                                             *)
(***************************************************************************)
getSize == Len(cache.entries)

C29_SizeWithinMaxSize == cache.constructed => getSize <= cache.maxSize

(***************************************************************************)
(* C30: when a new key is set into a full LRUCache, the entry evicted is   *)
(* the one least recently used, a successful get and a set of a key both   *)
(* counting as a use, and every other unexpired entry remains retrievable  *)
(* with its value.                                                         *)
(***************************************************************************)
KeysOf(entries) == {entries[i].key : i \in DOMAIN entries}

SetOfNewKeyWhenFull ==
    /\ cache.last.op = "set"
    /\ cache.last.key \notin KeysOf(cache.last.entries)
    /\ Len(cache.last.entries) = cache.maxSize

LeastRecentlyUsed(entries, lastUse) ==
    CHOOSE k \in KeysOf(entries) :
        \A other \in KeysOf(entries) : lastUse[k] <= lastUse[other]

C30_EvictsLeastRecentlyUsed ==
    SetOfNewKeyWhenFull =>
        LET before == cache.last.entries
            lru == LeastRecentlyUsed(before, cache.last.lastUse) IN
        /\ lru \notin KeysOf(cache.entries)
        /\ \A i \in DOMAIN before :
               (before[i].key # lru /\ ~IsExpired(before[i], cache.now)) =>
                   \E j \in DOMAIN cache.entries :
                       /\ cache.entries[j].key = before[i].key
                       /\ cache.entries[j].value = before[i].value
                       /\ ~IsExpired(cache.entries[j], cache.now)

(***************************************************************************)
(* C31: the events a session emits appear in stage order and no stage is   *)
(* re-entered: the in-progress state update is the first event; the        *)
(* summarizing status precedes every title, objective and walkthrough      *)
(* event; the reviewing status follows them and precedes every finding     *)
(* event; the categorized result follows every finding event and precedes  *)
(* the summary events; the terminal event is last.                         *)
(***************************************************************************)
SessionEvents(s) == SelectSeq(LogOf(s), LAMBDA e : IsEmit(e) /\ e.src = s)

IsStatus(e, status) == e.name = "review_status" /\ e.arg = status
IsPrDetail(e) == e.name \in {"pr_title", "pr_objective", "walk_through"}
IsFinding(e) == e.name = "review_comment"
IsCategorized(e) == e.name = "additional_details"
IsSummary(e) == e.name \in {"short_summary", "summary_comment"}

\* The stage an event belongs to: 0 Initializing, 1 Summarizing, 2 Reviewing,
\* 3 Finalizing, 4 the end (Completed or Failed).
StageOf(e) ==
    CASE e.name = "state_update" /\ e.arg = "in_progress" -> 0
      [] e.name = "product_settings" -> 0
      [] IsStatus(e, "summarizing") \/ IsPrDetail(e) -> 1
      [] e.name = "thinking_update"
            /\ e.arg # "Generating a summary of the review..." -> 1
      [] IsStatus(e, "reviewing") \/ IsFinding(e) -> 2
      [] IsCategorized(e) \/ IsSummary(e) -> 3
      [] e.name = "thinking_update"
            /\ e.arg = "Generating a summary of the review..." -> 3
      [] OTHER -> 4

Positions(evs, P(_)) == {i \in DOMAIN evs : P(evs[i])}

Before(A, B) == \A i \in A, j \in B : i < j

InStageOrder(evs) ==
    LET summarizing == Positions(evs, LAMBDA e : IsStatus(e, "summarizing"))
        details == Positions(evs, IsPrDetail)
        reviewing == Positions(evs, LAMBDA e : IsStatus(e, "reviewing"))
        findings == Positions(evs, IsFinding)
        categorized == Positions(evs, IsCategorized)
        summaries == Positions(evs, IsSummary)
        terminals == Positions(evs, IsTerminal) IN
    /\ evs # <<>> => (evs[1].name = "state_update" /\ evs[1].arg = "in_progress")
    /\ \A i, j \in DOMAIN evs : i < j => StageOf(evs[i]) <= StageOf(evs[j])
    /\ Cardinality(summarizing) <= 1 /\ Cardinality(reviewing) <= 1
    /\ Cardinality(categorized) <= 1 /\ Cardinality(terminals) <= 1
    /\ details # {} => summarizing # {}
    /\ Before(summarizing, details)
    /\ Before(details, reviewing)
    /\ findings # {} => reviewing # {}
    /\ Before(reviewing, findings)
    /\ Before(findings, categorized)
    /\ summaries # {} => categorized # {}
    /\ Before(categorized, summaries)
    /\ \A i \in terminals : i = Len(evs)

C31_EventsInStageOrder == Started(1) => InStageOrder(SessionEvents(1))

\* A completed session that went through every stage: its three details,
\* two findings, the categorized result and the summary events are out.
C31_Witness ==
    /\ sessions[1].pc = "done"
    /\ LET evs == SessionEvents(1) IN
       /\ Cardinality(Positions(evs, IsPrDetail)) = 3
       /\ Cardinality(Positions(evs, IsFinding)) >= 2
       /\ Positions(evs, IsCategorized) # {}
       /\ Cardinality(Positions(evs, IsSummary)) = 2
       /\ evs[Len(evs)].name = "review_completed" /\ evs[Len(evs)].arg = "completed"

(***************************************************************************)
(* C32: while a diff is scanned, a well-formed hunk header                 *)
(* '@@ -a,b +c,d @@' sets the line cursor to c, the cursor advances by one *)
(* on each context line and each added line and does not advance on a      *)
(* removed line, so every added line inside a hunk is in the changed lines *)
(* of its file under its new-file line number: c plus the number of lines  *)
(* of the new file between the header and the line.                        *)
(***************************************************************************)
\* currentNewLine after the first k lines of the diff have been scanned.
RECURSIVE CursorAfter(_, _)
CursorAfter(diffLines, k) ==
    IF k = 0 THEN 0
    ELSE ScanLine(diffLines[k], CursorAfter(diffLines, k - 1), {}).currentNewLine

IsRemoved(line) == line # <<>> /\ line[1] = "-"

\* The header of the hunk that line i lies in.
HeaderOf(diffLines, i) ==
    CHOOSE h \in 1 .. i - 1 :
        IsHeader(diffLines[h]) /\ \A j \in h + 1 .. i - 1 : ~IsHeader(diffLines[j])

\* The number of line i of a hunk in the new file: removed lines are not
\* lines of the new file.
NewFileLine(diffLines, i) ==
    LET h == HeaderOf(diffLines, i) IN
    parseInt(HunkHeaderMatch(diffLines[h]))
        + Cardinality({j \in h + 1 .. i - 1 : ~IsRemoved(diffLines[j])})

CursorFollowsNewFile(diffLines) ==
    \A k \in DOMAIN diffLines :
        LET line == diffLines[k]
            before == CursorAfter(diffLines, k - 1)
            after == CursorAfter(diffLines, k) IN
        /\ line = HunkHeader => after = 1
        /\ line = HunkHeaderNoCounts => after = 10
        /\ line \in {ContextLine, AddedLine} => after = before + 1
        /\ line = RemovedLine => after = before

C32_AddedLinesUnderNewFileNumber ==
    Started(1) =>
        \A n \in DOMAIN sessions[1].files :
            LET diffLines == split(sessions[1].files[n].diff) IN
            /\ CursorFollowsNewFile(diffLines)
            /\ \A i \in DOMAIN diffLines :
                   (InHunk(diffLines, i) /\ diffLines[i] = AddedLine) =>
                       NewFileLine(diffLines, i) \in changedLinesOf(sessions[1].files, n)

\* The review of a hunk that removes its first line and adds another in its
\* place, next to b.ts, has sent its payload: the added line is line 1 of
\* a.ts, the added line of b.ts is its line 10.
C32_Witness ==
    /\ Categorized(1)
    /\ sessions[1].files = << File("a.ts", << HunkHeader, RemovedLine, AddedLine >>), OtherFile >>
    /\ changedLinesOf(sessions[1].files, 1) = {1}
    /\ changedLinesOf(sessions[1].files, 2) = {10}

(***************************************************************************)
(* C33: a comment of type verification or other whose range contains a     *)
(* changed line of its file is in the additional bucket of the payload,    *)
(* under its filename, as often as it is in the list of comments.          *)
(***************************************************************************)
C33_ConfirmationInDiffIsAdditional ==
    Categorized(1) =>
        LET p == PayloadOf(1) IN
        \A c \in Accumulated(1) :
            (c.type \in {"verification", "other"} /\ Overlaps(1, c)) =>
                /\ c.filename \in DOMAIN p.additionalComments
                /\ Occurrences(c, p.additionalComments[c.filename])
                      = Occurrences(c, sessions[1].allComments)
                /\ p.counts.additional >= Occurrences(c, sessions[1].allComments)

\* A verification comment on the added line of the example diff and a
\* comment of type other over the whole hunk have been categorized.
C33_Witness ==
    /\ Categorized(1)
    /\ sessions[1].files = ExampleFiles
    /\ Finding("a.ts", 2, 2, "verification") \in Accumulated(1)
    /\ Finding("a.ts", 1, 3, "other") \in Accumulated(1)

(***************************************************************************)
(* C34: the rendered diff block attached to a finding holds exactly the    *)
(* changed lines of its patch: every added and every removed line of the   *)
(* patch, whatever its content, and no line of the patch header, no hunk   *)
(* header and no context line.                                             *)
(***************************************************************************)
\* The added and removed lines of a patch: the lines that start with '+' or
\* '-' below its first hunk header.
ChangedLinesOfPatch(patch) ==
    LET lines == split(patch)
        headers == {i \in DOMAIN lines : startsWith(lines[i], <<"@", "@">>)}
        first == IF headers = {} THEN Len(lines)
                 ELSE CHOOSE i \in headers : \A j \in headers : i <= j
    IN SelectSeq(SubSeq(lines, first + 1, Len(lines)),
                 LAMBDA line : line # <<>> /\ line[1] \in {"+", "-"})

\* The lines between the fences of the block appended to the text of a
\* finding; none when no block is appended.
RenderedLines(payload) ==
    IF payload.comment = <<>> THEN <<>>
    ELSE LET lines == split(payload.comment) IN SubSeq(lines, 4, Len(lines) - 1)

\* The payload of a finding event.
FindingPayload(e) == e.items[2]

Patched(s) ==
    Indices(s, LAMBDA e : IsEmit(e) /\ IsFinding(e)
                             /\ "suggestionDiff" \in DOMAIN FindingPayload(e))

C34_RenderedDiffIsChangedLines ==
    Started(1) =>
        \A i \in Patched(1) :
            RenderedLines(FindingPayload(LogOf(1)[i]))
                = ChangedLinesOfPatch(FindingPayload(LogOf(1)[i]).suggestionDiff)

(***************************************************************************)
(* C35: a comment whose range lies outside every hunk of its file, beyond  *)
(* the end of the file's content, or whose file is not among the files of  *)
(* the review does not fail the session: it is emitted as a finding event  *)
(* (as often as the provider gave it), a patch is attached to the event    *)
(* only if the comment carries a suggestion and its file is in the review, *)
(* no error event is emitted, and the session ends with the completed      *)
(* terminal event.                                                         *)
(***************************************************************************)
Stray(s, c) ==
    LET files == sessions[s].files
        n == FindFile(files, c.filename) IN
    \/ n = 0
    \/ (c.startLine .. c.endLine) \cap HunkLineNumbers(split(files[n].diff)) = {}
    \/ c.endLine > Len(split(files[n].fileContent))

FindingEventsOf(s, c) ==
    Indices(s, LAMBDA e : IsEmit(e) /\ IsFinding(e) /\ e.items[1] = c)

C35_StrayFindingsDoNotFail ==
    Started(1) =>
        \A c \in Accumulated(1) :
            Stray(1, c) =>
                /\ Cardinality(FindingEventsOf(1, c))
                      = Occurrences(c, sessions[1].allComments)
                /\ \A i \in FindingEventsOf(1, c) :
                      "suggestionDiff" \in DOMAIN FindingPayload(LogOf(1)[i]) =>
                          /\ HasSuggestions(c)
                          /\ FindFile(sessions[1].files, c.filename) # 0
                /\ Indices(1, LAMBDA e : IsEmit(e) /\ e.name \in {"error", "rate_limit_exceeded"}) = {}
                /\ sessions[1].pc = "done" =>
                      /\ Cardinality(Indices(1, IsRunTerminal)) = 1
                      /\ \A i \in Indices(1, IsRunTerminal) : LogOf(1)[i].arg = "completed"

\* A review has completed with two comments that carry a suggestion: one
\* on line 10 of a.ts, beyond its content and its hunk, sent with a patch,
\* and one on c.ts, which is not in the review, sent without.
C35_Witness ==
    /\ sessions[1].pc = "done"
    /\ LET far == Suggestion("a.ts", 10, 10, "refactor_suggestion", << <<"w">> >>)
           other == Suggestion("c.ts", 2, 2, "refactor_suggestion", << <<"w">> >>) IN
       /\ {far, other} \subseteq Accumulated(1)
       /\ \A i \in FindingEventsOf(1, far) : "suggestionDiff" \in DOMAIN FindingPayload(LogOf(1)[i])
       /\ \A i \in FindingEventsOf(1, other) : "suggestionDiff" \notin DOMAIN FindingPayload(LogOf(1)[i])
       /\ Indices(1, LAMBDA e : IsTerminal(e) /\ e.arg = "completed") # {}

(***************************************************************************)
(* C36: in every completed session the findings sent as finding events,    *)
(* the findings in the buckets of the categorized payload and the findings *)
(* passed to the summary call are the same multiset, also when the stream  *)
(* failed part-way and the batch call was used.                            *)
(***************************************************************************)
Completed(s) ==
    sessions[s].pc = "done" /\ Indices(s, LAMBDA e : IsTerminal(e) /\ e.arg = "completed") # {}

\* How often comment c was sent as a finding event, is in the payload, and
\* was passed to the summary call.
TimesSent(s, c) == Cardinality(FindingEventsOf(s, c))

TimesCategorized(s, c) ==
    InAssertive(c, PayloadOf(s)) + InAdditional(c, PayloadOf(s)) + InOutside(c, PayloadOf(s))

TimesSummarized(s, c) ==
    LET calls == Indices(s, LAMBDA e : IsCall(e) /\ e.name = "generateReviewSummary") IN
    Occurrences(c, LogOf(s)[CHOOSE i \in calls : TRUE].items)

Sent(s) == {LogOf(s)[i].items[1] : i \in Indices(s, LAMBDA e : IsEmit(e) /\ IsFinding(e))}

AddedInHunkLineNumbers(diffLines) ==
    {NewFileLine(diffLines, i) :
        i \in {j \in DOMAIN diffLines : InHunk(diffLines, j) /\ IsAdded(diffLines[j])}}

C37_ChangedLinesAreHunkLines ==
    Started(1) =>
        \A n \in DOMAIN sessions[1].files :
            /\ \A line \in changedLinesOf(sessions[1].files, n) : line >= 1
            /\ changedLinesOf(sessions[1].files, n)
                  \subseteq AddedInHunkLineNumbers(split(sessions[1].files[n].diff))

(***************************************************************************)
(* C38: a request rejected at admission (rate limit exceeded, or file      *)
(* validation failed) creates no session and adds no event to the history  *)
(* of its reviewId or to the bus; a session starts in no other step than   *)
(* the one of an accepted request, and while none has started no session   *)
(* event exists under any reviewId.                                        *)
(***************************************************************************)
Rejections == Admissions \ {"ok"}

NoSessionEvents ==
    \A r \in ReviewIds : \A i \in DOMAIN log[r] : log[r][i].src = Router

RejectedRequestStartsNothing ==
    (\E a \in Rejections : RequestFullReview(1, "r1", "c1", ExampleFiles, a)) =>
        /\ sessions' = sessions
        /\ log' = log
        /\ activeReviews' = activeReviews
        /\ bus' = <<>>

OnlyAcceptedRequestStarts ==
    /\ (~Started(1) /\ Started(1)') =>
           RequestFullReview(1, "r1", "c1", ExampleFiles, "ok")
    /\ ~Started(1)' => NoSessionEvents'

C38_RejectedRequestStartsNothing ==
    [][RejectedRequestStartsNothing /\ OnlyAcceptedRequestStarts]_vars

\* A request was rejected after a stop request for its reviewId: only a
\* rejected request empties the bus while no session has started.
C38_Witness ==
    /\ ~Started(1)
    /\ Len(log["r1"]) > 0
    /\ bus = <<>>

(***************************************************************************)
(* C39: after any sequence of startReview, completeReview and failReview   *)
(* calls, reviews.inProgress is the number of reviews tracked as active,   *)
(* is not negative, and reviews.total is the sum of reviews.completed,     *)
(* reviews.failed and reviews.inProgress.                                  *)
(***************************************************************************)
Tracked == Cardinality(DOMAIN monitor.activeReviews)

C39_InProgressIsTracked ==
    /\ monitor.reviews.inProgress = Tracked
    /\ monitor.reviews.inProgress >= 0
    /\ monitor.reviews.total
          = monitor.reviews.completed + monitor.reviews.failed
                + monitor.reviews.inProgress

(***************************************************************************)
(* C40: a session that fails sends exactly one error-class event, before   *)
(* its failed terminal event: rate_limit_exceeded when the failure of the  *)
(* model's call is retryable and its response body contains 'overloaded',  *)
(* error for every other failure.                                          *)
(***************************************************************************)
ReportedOverloaded(failure) ==
    failure.isRetryable /\ Includes(failure.responseBody, "overloaded")

IsErrorClass(e) == IsEmit(e) /\ e.name \in {"error", "rate_limit_exceeded"}

C40_OverloadedIsRateLimitExceeded ==
    Started(1) =>
    \A i \in Indices(1, LAMBDA e : IsSettle(e, "performCodeReview", "rejected")) :
        LET failure == LogOf(1)[i].items[1]
            sent == Indices(1, IsErrorClass)
            failed == Indices(1, LAMBDA e : IsTerminal(e) /\ e.arg = "failed") IN
        /\ Cardinality(sent) = 1
        /\ failed # {}
        /\ \A j \in sent :
              /\ \A k \in failed : j < k
              /\ LogOf(1)[j].name = IF ReportedOverloaded(failure)
                                    THEN "rate_limit_exceeded" ELSE "error"

====
